---- MODULE Spec2Model ----
(***************************************************************************)
(* Model of the AWX -> AAP migration scripts:                              *)
(*   src/files/migrate_projects.py       (key normalisation, PROD compare, *)
(*                                        single and legacy bulk runs, the *)
(*                                        exported and the live index)     *)
(*   src/files/migrate_job_templates.py  (schedules, recurrence rules,     *)
(*                                        notification secrets, the runs)  *)
(* and of two runs of a script working on one target at the same time.     *)
(*                                                                         *)
(* Text is modelled as a sequence of one-character strings, so that the    *)
(* parsing and formatting the code performs is computed, not assumed.      *)
(***************************************************************************)
EXTENDS Integers, Sequences, FiniteSets, TLC

VARIABLES
    \* ---- key normalisation (project_key / _normalize_git_url) ----
    k_pc,       \* "idle" | "raw" | "once" | "twice"
    k_a,        \* project object a: [scm_url, scm_branch]
    k_b,        \* project object b, a decorated variant of the same repository
    k_ra,       \* project_key(a): [raised, url, branch]
    k_rb,       \* project_key(b)
    k_r2,       \* _normalize_git_url applied to the url of k_ra
    \* ---- PROD compare (run_prod_compare) ----
    p_pc,       \* "idle" | "start" | "loaded" | "loop" | "done" | "crashed"
    p_cfg,      \* run arguments: [dry_run, limit, include, exclude]
    p_atst,     \* the reference (ATST) listing, in listing order
    p_prod,     \* the candidate (PROD) listing, in listing order
    p_map,      \* atst_map: set of [key, obj] pairs, one per key
    p_idx,      \* number of candidates the loop has consumed
    p_cnt,      \* [migrated, matches, filtered, failures, processed]
    p_receipt,  \* receipt lines, in the order appended
    p_log,      \* one outcome per consumed candidate (what the loop did with it)
    p_posts,    \* create calls issued to the target, in order
    p_exit,     \* return value of the run, -1 while running
    p_hist,     \* the runs made before this one: [cfg, log, posts, exit]
    \* ---- schedule submission (try_create_schedule) ----
    s_pc,       \* "idle" | "init" | "skipped" | "dryrun" | "try" | "ok" | "exhausted"
    s_in,       \* [s, jt_id, jt_inventory_id, dry_run]: the schedule and its context
    s_variants, \* the variants list, built before the first attempt
    s_i,        \* number of attempts made
    s_posts,    \* POSTs issued, in order: [label, pl, answer]
    s_created,  \* created_cnt of migrate_one
    s_events,   \* emitted NDJSON events, in order
    s_ret,      \* return value: "none" | "true" | "false"
    \* ---- notification secrets (merge_email_config) ----
    m_pc,       \* "idle" | "init" | "done" | "again"
    m_src,      \* the exported notification_configuration
    m_secrets,  \* the local secrets of that notification
    m_out,      \* the merged configuration
    m_twice,    \* the merged configuration merged with the same secrets again
    \* ---- job templates (main and migrate_one of migrate_job_templates.py) ----
    j_pc,       \* "idle" | "start" | "loop" | "done" | "crashed"
    j_cfg,      \* run arguments
    j_src,      \* the source listing of job templates, in listing order
    j_tgt,      \* the target: what it holds and how it answers
    j_tgt0,     \* the target as it was when the run started
    j_idx,      \* number of templates the loop has consumed
    j_cnt,      \* [migrated, filtered, fail]
    j_log,      \* one entry per consumed template: outcome and calls made
    j_exit,     \* exit status of the run, -1 while running
    j_hist,     \* the runs made before this one: [cfg, tgt0, log, exit]
    \* ---- legacy project runs (run_single, run_bulk_atst) ----
    b_pc,       \* "idle" | "start" | "loop" | "break" | "done" | "crashed"
    b_cfg,      \* run arguments: [mode, dry_run, limit, include, exclude]
    b_src,      \* the source listing of projects, in listing order
    b_tgt,      \* the target: [projects, reject, down]
    b_idx,      \* number of projects the loop has consumed
    b_cnt,      \* [migrated, skipped_existing, skipped_filtered, failures, processed]
    b_log,      \* one entry per consumed project
    b_posts,    \* create calls issued to the target, in order
    b_exit,     \* exit status of the run, -1 while running
    b_hist,     \* the runs made before this one: [cfg, log, posts, exit]
    \* ---- reference resolution (ensure_refs, aap_find_credential) ----
    r_pc,       \* "idle" | "init" | "refs" | "cred" | "creds"
    r_tgt,      \* the target the lookups are made in
    r_in,       \* [proj_name, inv_name, forced_ee_id, name, awx_ctype_name]
    r_job,      \* [creds, force_machine_cred_id, dry_run] of the credentials step
    r_out,      \* the context after the call
    \* ---- the offline index (export_atst_index, load_atst_index_from_file) ----
    x_pc,       \* "idle" | "init" | "live" | "exported" | "loaded" | "crashed"
    x_listing,  \* the reference listing, in listing order
    x_live,     \* the index built live: [raised, map]
    x_file,     \* the "projects" object of the exported file: text key -> entry
    x_offline,  \* the index loaded from the file
    \* ---- two runs at once against one target ----
    c_kind,     \* "none" | "projects" | "job_templates": the script both runs execute
    c_src,      \* the source listing both runs go through
    c_tgt,      \* the target both runs call
    c_pc,       \* per run: "idle" | "lookup" | "create" | "rest"
    c_idx,      \* per run: number of entities the loop has consumed
    c_seen,     \* per run: the answer of its latest lookup
    c_posts     \* the create calls the target received, in order: [run, name, answer]

kvars == <<k_pc, k_a, k_b, k_ra, k_rb, k_r2>>
pvars == <<p_pc, p_cfg, p_atst, p_prod, p_map, p_idx, p_cnt, p_receipt, p_log, p_posts, p_exit,
           p_hist>>
svars == <<s_pc, s_in, s_variants, s_i, s_posts, s_events, s_created, s_ret>>
mvars == <<m_pc, m_src, m_secrets, m_out, m_twice>>
jvars == <<j_pc, j_cfg, j_src, j_tgt, j_tgt0, j_idx, j_cnt, j_log, j_exit, j_hist>>
bvars == <<b_pc, b_cfg, b_src, b_tgt, b_idx, b_cnt, b_log, b_posts, b_exit, b_hist>>
rvars == <<r_pc, r_tgt, r_in, r_job, r_out>>
xvars == <<x_pc, x_listing, x_live, x_file, x_offline>>
cvars == <<c_kind, c_src, c_tgt, c_pc, c_idx, c_seen, c_posts>>
vars == <<kvars, pvars, svars, mvars, jvars, bvars, rvars, xvars, cvars>>
\* what the steps of one part of the model leave alone
outside_k == <<pvars, svars, mvars, jvars, bvars, rvars, xvars, cvars>>
outside_p == <<kvars, svars, mvars, jvars, bvars, rvars, xvars, cvars>>
outside_s == <<kvars, pvars, mvars, jvars, bvars, rvars, xvars, cvars>>
outside_m == <<kvars, pvars, svars, jvars, bvars, rvars, xvars, cvars>>
outside_j == <<kvars, pvars, svars, mvars, bvars, rvars, xvars, cvars>>
outside_b == <<kvars, pvars, svars, mvars, jvars, rvars, xvars, cvars>>
outside_r == <<kvars, pvars, svars, mvars, jvars, bvars, xvars, cvars>>
outside_x == <<kvars, pvars, svars, mvars, jvars, bvars, rvars, cvars>>
outside_c == <<kvars, pvars, svars, mvars, jvars, bvars, rvars, xvars>>

(***************************************************************************)
(* Text: characters and the str methods the code uses.                     *)
(***************************************************************************)
UpperAlpha == <<"A","B","C","D","E","F","G","H","I","J","K","L","M",
                "N","O","P","Q","R","S","T","U","V","W","X","Y","Z">>
LowerAlpha == <<"a","b","c","d","e","f","g","h","i","j","k","l","m",
                "n","o","p","q","r","s","t","u","v","w","x","y","z">>
DigitChars == <<"0","1","2","3","4","5","6","7","8","9">>

Range(f) == {f[i] : i \in DOMAIN f}
\* F applied to the value of x, with x evaluated once
Bind(x, F(_)) == CHOOSE r \in {F(v) : v \in {x}} : TRUE
SetMin(S) == CHOOSE x \in S : \A y \in S : x <= y
SetMax(S) == CHOOSE x \in S : \A y \in S : x >= y

IsUpper(c) == c \in Range(UpperAlpha)
IsAlpha(c) == c \in Range(UpperAlpha) \cup Range(LowerAlpha)
IsDigit(c) == c \in Range(DigitChars)
\* str.isspace for the characters of the model's alphabet
IsSpace(c) == c \in {" ", "\n", "\t"}

LowerChar(c) == IF IsUpper(c)
                THEN LowerAlpha[CHOOSE i \in 1..26 : UpperAlpha[i] = c]
                ELSE c
UpperChar(c) == IF c \in Range(LowerAlpha)
                THEN UpperAlpha[CHOOSE i \in 1..26 : LowerAlpha[i] = c]
                ELSE c
\* str.lower / str.upper
Lower(s) == [i \in 1..Len(s) |-> LowerChar(s[i])]
Upper(s) == [i \in 1..Len(s) |-> UpperChar(s[i])]

\* s[i:] and s[:i] with 1-based positions: From(s, i) keeps s[i], s[i+1], ...
From(s, i) == SubSeq(s, i, Len(s))
Upto(s, i) == SubSeq(s, 1, i)

\* str.find(c): the first position of character c at or after `from`, 0 if none
FindFrom(s, c, from) ==
    LET I == {i \in from..Len(s) : s[i] = c}
    IN  IF I = {} THEN 0 ELSE SetMin(I)
Find(s, c) == FindFrom(s, c, 1)
\* str.rfind(c)
RFind(s, c) ==
    LET I == {i \in 1..Len(s) : s[i] = c}
    IN  IF I = {} THEN 0 ELSE SetMax(I)
Has(s, c) == Find(s, c) # 0

\* str.startswith / str.endswith
StartsWith(s, p) == Len(s) >= Len(p) /\ Upto(s, Len(p)) = p
EndsWith(s, p) == Len(s) >= Len(p) /\ From(s, Len(s) - Len(p) + 1) = p
\* a case-insensitive match of the literal p at position i of s
MatchAtCI(s, i, p) ==
    /\ i >= 1
    /\ i + Len(p) - 1 <= Len(s)
    /\ Lower(SubSeq(s, i, i + Len(p) - 1)) = Lower(p)

\* str.strip(): whitespace removed at both ends
Strip(s) ==
    LET I == {i \in 1..Len(s) : ~IsSpace(s[i])}
    IN  IF I = {} THEN <<>> ELSE SubSeq(s, SetMin(I), SetMax(I))
\* str.rstrip(c)
RStripChar(s, c) ==
    LET I == {i \in 1..Len(s) : s[i] # c}
    IN  IF I = {} THEN <<>> ELSE Upto(s, SetMax(I))

\* str.partition(c) and str.rpartition(c): <<before, separator, after>>
Partition(s, c) ==
    LET i == Find(s, c)
    IN  IF i = 0 THEN <<s, <<>>, <<>>>>
        ELSE <<Upto(s, i - 1), <<c>>, From(s, i + 1)>>
RPartition(s, c) ==
    LET i == RFind(s, c)
    IN  IF i = 0 THEN <<(<<>>), <<>>, s>>
        ELSE <<Upto(s, i - 1), <<c>>, From(s, i + 1)>>

\* str.isdigit() (false for the empty string)
IsDigitStr(s) == Len(s) > 0 /\ \A i \in 1..Len(s) : IsDigit(s[i])
DigitVal(c) == (CHOOSE i \in 1..10 : DigitChars[i] = c) - 1
\* int(s) for a string of decimal digits
RECURSIVE StrToInt(_)
StrToInt(s) ==
    IF Len(s) = 0 THEN 0
    ELSE 10 * StrToInt(Upto(s, Len(s) - 1)) + DigitVal(s[Len(s)])
\* str(n) for n >= 0
RECURSIVE IntToStr(_)
IntToStr(n) ==
    IF n < 10 THEN <<DigitChars[n + 1]>>
    ELSE IntToStr(n \div 10) \o <<DigitChars[(n % 10) + 1]>>
\* n formatted on exactly w digits with leading zeros (strftime fields)
RECURSIVE Pad(_, _)
Pad(n, w) == IF w = 0 THEN <<>> ELSE Pad(n \div 10, w - 1) \o <<DigitChars[(n % 10) + 1]>>

(***************************************************************************)
(* urllib.parse as the code uses it: urlparse(url) with its .scheme,       *)
(* .hostname, .port and .path, and urlunparse.  A ValueError is the field  *)
(* raised = TRUE.  The alphabet of the inputs has no ';', tab, CR or LF in *)
(* URLs and only ASCII, so the params split and the NFKC netloc check of   *)
(* the library never apply.                                                *)
(***************************************************************************)
SchemeChars == Range(UpperAlpha) \cup Range(LowerAlpha) \cup Range(DigitChars) \cup {"+", "-", "."}
\* the members of urllib.parse.uses_netloc a URL of the model can carry
UsesNetloc == { <<>>, <<"h","t","t","p">>, <<"h","t","t","p","s">>, <<"g","i","t">>, <<"f","t","p">> }

\* urllib.parse._splitnetloc(url, 2): <<netloc, rest>>
splitnetloc(url) ==
    LET D == {i \in 3..Len(url) : url[i] \in {"/", "?", "#"}}
    IN  IF D = {} THEN <<SubSeq(url, 3, Len(url)), <<>>>>
        ELSE Bind(SetMin(D), LAMBDA delim : <<SubSeq(url, 3, delim - 1), From(url, delim)>>)

\* url.split(c, 1)[0]: the text before the first c
Before(s, c) == Bind(Find(s, c), LAMBDA i : IF i # 0 THEN Upto(s, i - 1) ELSE s)

\* the scheme test of urlsplit: i is the position of the first ':'
HasScheme(url, i) ==
    /\ i > 1
    /\ IsAlpha(url[1])
    /\ \A k \in 1..(i - 1) : url[k] \in SchemeChars

\* urlsplit after the scheme is cut off: url1 is the rest
urlsplit_rest(scheme, url1) ==
    IF Len(url1) >= 2 /\ Upto(url1, 2) = <<"/", "/">>
    THEN Bind(splitnetloc(url1), LAMBDA nl :
            [raised |-> \/ (Has(nl[1], "[") /\ ~Has(nl[1], "]"))
                        \/ (Has(nl[1], "]") /\ ~Has(nl[1], "[")),
             scheme |-> scheme, netloc |-> nl[1],
             path |-> Before(Before(nl[2], "#"), "?")])
    ELSE [raised |-> FALSE, scheme |-> scheme, netloc |-> <<>>,
          path |-> Before(Before(url1, "#"), "?")]

\* urllib.parse.urlsplit(url): [raised, scheme, netloc, path]; query and
\* fragment are cut off and never read by the code
urlsplit(url) ==
    Bind(url, LAMBDA url0 :
    Bind(Find(url0, ":"), LAMBDA i :
        IF HasScheme(url0, i)
        THEN urlsplit_rest(Lower(Upto(url0, i - 1)), From(url0, i + 1))
        ELSE urlsplit_rest(<<>>, url0)))

\* _NetlocResultMixinStr._hostinfo: <<hostname, port>>, port <<>> for None
hostinfo(netloc) ==
    Bind(RPartition(netloc, "@")[3], LAMBDA hi :
    Bind(Partition(hi, "["), LAMBDA br :
        IF br[2] # <<>>
        THEN Bind(Partition(br[3], "]"), LAMBDA hp : <<hp[1], Partition(hp[3], ":")[3]>>)
        ELSE Bind(Partition(hi, ":"), LAMBDA hp : <<hp[1], hp[3]>>)))

\* the .hostname property of a netloc with host text hn, <<>> for None (the
\* code maps None to "")
hostname(hn) ==
    IF hn = <<>> THEN <<>>
    ELSE Bind(Partition(hn, "%"), LAMBDA pz : Lower(pz[1]) \o pz[2] \o pz[3])

\* the .port property of a netloc with port text ps: [raised, none, value]
port(ps) ==
    IF ps = <<>> THEN [raised |-> FALSE, none |-> TRUE, value |-> 0]
    ELSE IF ~IsDigitStr(ps) THEN [raised |-> TRUE, none |-> TRUE, value |-> 0]
    ELSE Bind(StrToInt(ps), LAMBDA n :
            IF n > 65535 THEN [raised |-> TRUE, none |-> TRUE, value |-> 0]
            ELSE [raised |-> FALSE, none |-> FALSE, value |-> n])

\* urllib.parse.urlunparse((scheme, netloc, path, "", "", ""))
urlunparse(scheme, netloc, path) ==
    LET slashed == IF path # <<>> /\ path[1] # "/" THEN <<"/">> \o path ELSE path
        url == IF \/ netloc # <<>>
                  \/ (/\ scheme # <<>>
                      /\ scheme \in UsesNetloc
                      /\ ~(Len(path) >= 2 /\ Upto(path, 2) = <<"/", "/">>))
               THEN <<"/", "/">> \o netloc \o slashed
               ELSE path
    IN  IF scheme # <<>> THEN scheme \o <<":">> \o url ELSE url

(***************************************************************************)
(* migrate_projects.py: the Key Normalizer                                 *)
(***************************************************************************)
DotGit == <<".", "g", "i", "t">>
Https == <<"h", "t", "t", "p", "s">>
Http == <<"h", "t", "t", "p">>

_strip_trailing_git(url) ==
    IF EndsWith(url, DotGit) THEN Upto(url, Len(url) - 4) ELSE url

\* lines 137-142, given the parse result u, host text and port
normalize_parsed(u, host, pt) ==
    LET scheme == Lower(u.scheme)
        dflt == \/ (scheme = Https /\ pt.value = 443)
                \/ (scheme = Http /\ pt.value = 80)
        netloc == IF ~pt.none /\ pt.value # 0 /\ ~dflt
                  THEN host \o <<":">> \o IntToStr(pt.value)
                  ELSE host
    IN  IF u.raised \/ pt.raised
        THEN [raised |-> TRUE, val |-> <<>>]
        ELSE Bind(_strip_trailing_git(u.path), LAMBDA stripped :
                [raised |-> FALSE,
                 val |-> urlunparse(scheme, netloc, RStripChar(stripped, "/"))])

\* [raised, val]: val is the normalized URL when nothing was raised
_normalize_git_url(url) ==
    Bind(url, LAMBDA raw :
        IF raw = <<>> THEN [raised |-> FALSE, val |-> <<>>]
        ELSE Bind(urlsplit(Strip(raw)), LAMBDA u :
             Bind(hostinfo(u.netloc), LAMBDA hi :
             Bind(port(hi[2]), LAMBDA pt :
             Bind(Lower(hostname(hi[1])), LAMBDA host :
                normalize_parsed(u, host, pt))))))

\* a key made of the raw URL, with no normalization
project_key_raw(obj) ==
    [raised |-> FALSE, url |-> obj.scm_url, branch |-> Strip(obj.scm_branch)]

\* [raised, url, branch]: the NaturalKey of a project object
project_key(obj) ==
    Bind(_normalize_git_url(obj.scm_url), LAMBDA n :
        [raised |-> n.raised, url |-> n.val, branch |-> Strip(obj.scm_branch)])

(***************************************************************************)
(* Inputs of the Key Normalizer: a repository URL is written as            *)
(*   prefix host port path tail                                            *)
(* and two project objects a and b of one repository differ only in the    *)
(* letter case of scheme and host and in the tail (".git" suffixes         *)
(* followed by slashes).                                                   *)
(***************************************************************************)
MaxGit == 2      \* most ".git" suffixes written after a path
MaxSlash == 2    \* most trailing slashes written after a path

PFX_HTTPS == <<"h","t","t","p","s",":","/","/">>
PFX_HTTP == <<"h","t","t","p",":","/","/">>
HOST_HX == <<"h",".","x">>
HOST_BR == <<"[",":",":","1">>
PORT_443 == <<":","4","4","3">>
PORT_X == <<":","x">>
PORT_BIG == <<":","6","5","5","3","6">>
PATH_RS == <<"/","R","/","s">>
BR_M == <<"m">>
BR_M_SP == <<" ","m"," ">>
NoKey == [raised |-> FALSE, url |-> <<>>, branch |-> <<>>]
NoNorm == [raised |-> FALSE, val |-> <<>>]

RECURSIVE Rep(_, _)
Rep(s, n) == IF n = 0 THEN <<>> ELSE s \o Rep(s, n - 1)

KPrefixes == { PFX_HTTPS, PFX_HTTP, <<>> }
KHosts == { HOST_HX, HOST_BR }
KPorts == { <<>>, PORT_443, PORT_X, PORT_BIG }
KPaths == { PATH_RS }
KBranchesA == { BR_M, BR_M_SP }
KBranchesB == { BR_M, <<>> }
KTails == [git : 0..MaxGit, slash : 0..MaxSlash]

TailText(t) == Rep(DotGit, t.git) \o Rep(<<"/">>, t.slash)

\* the raw URL of a repository written with a given letter case and tail
RawUrl(prefix, host, prt, path, up, t) ==
    (IF up THEN Upper(prefix \o host) ELSE prefix \o host) \o prt \o path \o TailText(t)

KeyInit ==
    /\ k_pc = "raw"
    /\ \E prefix \in KPrefixes, host \in KHosts, prt \in KPorts, path \in KPaths,
          ta \in KTails, tb \in KTails, up \in BOOLEAN,
          ba \in KBranchesA, bb \in KBranchesB :
            /\ up => prefix # <<>>
            /\ k_a = [scm_url |-> RawUrl(prefix, host, prt, path, FALSE, ta),
                      scm_branch |-> ba, tail |-> ta]
            /\ k_b = [scm_url |-> RawUrl(prefix, host, prt, path, up, tb),
                      scm_branch |-> bb, tail |-> tb]
    /\ k_ra = NoKey
    /\ k_rb = NoKey
    /\ k_r2 = NoNorm

KeyIdle ==
    /\ k_pc = "idle"
    /\ k_a = [scm_url |-> <<>>, scm_branch |-> <<>>, tail |-> [git |-> 0, slash |-> 0]]
    /\ k_b = k_a
    /\ k_ra = NoKey
    /\ k_rb = NoKey
    /\ k_r2 = NoNorm

\* project_key applied to both objects
KeyOnce ==
    /\ k_pc = "raw"
    /\ k_ra' = project_key(k_a)
    /\ k_rb' = project_key(k_b)
    /\ k_pc' = "once"
    /\ UNCHANGED <<k_a, k_b, k_r2, outside_k>>

\* _normalize_git_url applied to the normalized URL of a
KeyTwice ==
    /\ k_pc = "once"
    /\ ~k_ra.raised
    /\ k_r2' = _normalize_git_url(k_ra.url)
    /\ k_pc' = "twice"
    /\ UNCHANGED <<k_a, k_b, k_ra, k_rb, outside_k>>

KeyNext == KeyOnce \/ KeyTwice

(***************************************************************************)
(* migrate_projects.py: PROD compare mode (run_prod_compare)               *)
(*                                                                         *)
(* A project object carries the fields the code reads: id, name, scm_type, *)
(* scm_url, scm_branch and organization (the source system's).  A regular  *)
(* expression of --include / --exclude is the set of names it matches,     *)
(* with [on |-> FALSE] for an option that was not given.                   *)
(***************************************************************************)
MaxAtst == 2     \* longest reference (ATST) listing
MaxProd == 2     \* longest candidate (PROD) listing
MaxLimit == 1    \* largest --limit (0: no limit)
MaxRuns == 2     \* runs executed one after the other against one target

ORG_ID == 7            \* --organization-id of the run
PROD_PREFIX == "PROD_" \* --prod-prefix (its default, line 41)

URL_R_GIT == <<"h","t","t","p","s",":","/","/","h",".","x","/","r",".","g","i","t">>
URL_R_UP == <<"H","T","T","P","S",":","/","/","H",".","X","/","r","/">>
URL_Q == <<"h","t","t","p","s",":","/","/","h",".","x","/","q">>
URL_BADPORT == <<"h","t","t","p","s",":","/","/","h",".","x",":","x","/","r">>
GitType == <<"g", "i", "t">>
DefaultBranch == <<"(","d","e","f","a","u","l","t",")">>

AtstPool ==
    { [id |-> 1, name |-> "a", scm_type |-> GitType, scm_url |-> URL_R_GIT,
       scm_branch |-> BR_M, organization |-> 1],
      [id |-> 2, name |-> "a2", scm_type |-> <<>>, scm_url |-> URL_R_UP,
       scm_branch |-> BR_M_SP, organization |-> 1],
      [id |-> 3, name |-> "b", scm_type |-> GitType, scm_url |-> URL_Q,
       scm_branch |-> <<>>, organization |-> 1] }
ProdPool ==
    { [id |-> 1, name |-> "a", scm_type |-> GitType, scm_url |-> URL_R_UP,
       scm_branch |-> BR_M, organization |-> 2],
      [id |-> 2, name |-> "b", scm_type |-> <<>>, scm_url |-> URL_Q,
       scm_branch |-> BR_M, organization |-> 2],
      [id |-> 3, name |-> "c", scm_type |-> GitType, scm_url |-> URL_BADPORT,
       scm_branch |-> <<>>, organization |-> 2] }

NoRegex == [on |-> FALSE, m |-> {}]
Regex(names) == [on |-> TRUE, m |-> names]
\* the (--include, --exclude) pairs of the runs
FilterPool == { <<NoRegex, NoRegex>>, <<Regex({"a", "b"}), NoRegex>>, <<NoRegex, Regex({"b"})>> }

SeqsUpTo(S, n) == UNION { [1..k -> S] : k \in 0..n }

should_migrate(name, include_re, exclude_re) ==
    IF include_re.on /\ name \notin include_re.m THEN FALSE
    ELSE IF exclude_re.on /\ name \in exclude_re.m THEN FALSE
    ELSE TRUE

\* f"{url}@{branch or '(default)'}"
printable_key(key) ==
    key.url \o <<"@">> \o (IF key.branch # <<>> THEN key.branch ELSE DefaultBranch)

\* the creation payload: the fields copied from the source, the excluded
\* ones (id, organization, ...) dropped, and the target organization set
clean_project_for_aap(src, org_id) ==
    [name |-> src.name,
     scm_type |-> IF src.scm_url # <<>> /\ src.scm_type = <<>> THEN GitType ELSE src.scm_type,
     scm_url |-> src.scm_url,
     scm_branch |-> src.scm_branch,
     organization |-> org_id]

\* a plain assignment m[k] = v, where the last entity of a key wins
SetItem(m, k, v) ==
    [x \in DOMAIN m \cup {k} |-> IF x = k THEN v ELSE m[x]]

\* dict.setdefault(k, v)
SetDefault(m, k, v) ==
    IF k \in DOMAIN m THEN m
    ELSE [x \in DOMAIN m \cup {k} |-> IF x = k THEN v ELSE m[x]]

EmptyMap == [x \in {} |-> x]
KeyOf(r) == [url |-> r.url, branch |-> r.branch]

\* an index keyed by the raw URLs of the listing
RECURSIVE load_projects_map_raw(_)
load_projects_map_raw(listing) ==
    IF listing = <<>> THEN [raised |-> FALSE, map |-> EmptyMap]
    ELSE Bind(load_projects_map_raw(Upto(listing, Len(listing) - 1)), LAMBDA head :
            [raised |-> FALSE,
             map |-> SetDefault(head.map, KeyOf(project_key_raw(listing[Len(listing)])),
                                listing[Len(listing)])])

\* [raised, map]: the Natural-Key Index of a listing, in listing order
RECURSIVE load_projects_map_live(_)
load_projects_map_live(listing) ==
    IF listing = <<>> THEN [raised |-> FALSE, map |-> EmptyMap]
    ELSE Bind(load_projects_map_live(Upto(listing, Len(listing) - 1)), LAMBDA head :
         Bind(project_key(listing[Len(listing)]), LAMBDA k :
            IF head.raised \/ k.raised
            THEN [raised |-> TRUE, map |-> EmptyMap]
            ELSE [raised |-> FALSE,
                  map |-> SetDefault(head.map, KeyOf(k), listing[Len(listing)])]))

ZeroCounts == [migrated |-> 0, matches |-> 0, filtered |-> 0, failures |-> 0, processed |-> 0]

ProdInit ==
    /\ p_pc = "start"
    /\ \E dry \in BOOLEAN, lim \in 0..MaxLimit, f \in FilterPool :
          p_cfg = [dry_run |-> dry, limit |-> lim, include |-> f[1], exclude |-> f[2]]
    /\ p_atst \in SeqsUpTo(AtstPool, MaxAtst)
    /\ p_prod \in SeqsUpTo(ProdPool, MaxProd)
    /\ p_map = EmptyMap
    /\ p_idx = 0
    /\ p_cnt = ZeroCounts
    /\ p_receipt = <<>>
    /\ p_log = <<>>
    /\ p_posts = <<>>
    /\ p_exit = -1
    /\ p_hist = <<>>

\* lines 318-319: aap_ping or assert_org_exists raises; main exits with 1
PPreflightFail ==
    /\ p_pc = "start"
    /\ p_pc' = "crashed"
    /\ p_exit' = 1
    /\ UNCHANGED <<p_cfg, p_atst, p_prod, p_map, p_idx, p_cnt, p_receipt, p_log, p_posts, p_hist, outside_p>>

\* lines 318-339: the preflight passes, the index and the candidates load
PLoad ==
    /\ p_pc = "start"
    /\ \E ld \in {load_projects_map_live(p_atst)} :
          IF ld.raised
          THEN /\ p_pc' = "crashed"
               /\ p_exit' = 1
               /\ UNCHANGED p_map
          ELSE /\ p_pc' = "loop"
               /\ p_map' = ld.map
               /\ UNCHANGED p_exit
    /\ UNCHANGED <<p_cfg, p_atst, p_prod, p_idx, p_cnt, p_receipt, p_log, p_posts, p_hist, outside_p>>

\* an iteration that never looks at --limit
AfterStepUnlimited(processed) == "loop"

\* lines 378-380: the limit check at the end of an iteration
AfterStep(processed) ==
    IF p_cfg.limit # 0 /\ processed >= p_cfg.limit THEN "break" ELSE "loop"

Inc(c, field) == [c EXCEPT ![field] = @ + 1]

\* the filter of run_bulk_atst, which counts a filtered entity as processed
PStepFilteredCounted(p) ==
    /\ ~should_migrate(p.name, p_cfg.include, p_cfg.exclude)
    /\ p_cnt' = Inc(Inc(p_cnt, "processed"), "filtered")
    /\ p_log' = Append(p_log, [name |-> p.name, outcome |-> "FILTERED"])
    /\ p_pc' = "loop"
    /\ UNCHANGED <<p_receipt, p_posts, p_exit>>

\* lines 343-346: the candidate fails the name filter
PStepFiltered(p) ==
    /\ ~should_migrate(p.name, p_cfg.include, p_cfg.exclude)
    /\ p_cnt' = Inc(p_cnt, "filtered")
    /\ p_log' = Append(p_log, [name |-> p.name, outcome |-> "FILTERED"])
    /\ p_pc' = "loop"
    /\ UNCHANGED <<p_receipt, p_posts, p_exit>>

\* line 349: project_key raises outside the try; the run ends in main's handler
PStepKeyRaises(p) ==
    /\ should_migrate(p.name, p_cfg.include, p_cfg.exclude)
    /\ p_cnt' = Inc(p_cnt, "processed")
    /\ p_log' = Append(p_log, [name |-> p.name, outcome |-> "RAISED"])
    /\ p_pc' = "crashed"
    /\ p_exit' = 1
    /\ UNCHANGED <<p_receipt, p_posts>>

\* a match that is counted and printed but not put in the receipt
PStepMatchUnrecorded(p, key) ==
    /\ p_cnt' = Inc(Inc(p_cnt, "processed"), "matches")
    /\ p_log' = Append(p_log, [name |-> p.name, outcome |-> "MATCH"])
    /\ p_pc' = AfterStep(p_cnt.processed + 1)
    /\ UNCHANGED <<p_receipt, p_posts, p_exit>>

\* lines 353-358: the key is in the index
PStepMatch(p, key) ==
    /\ p_cnt' = Inc(Inc(p_cnt, "processed"), "matches")
    /\ p_receipt' = Append(p_receipt,
            [kind |-> "MATCH", atst_name |-> p_map[key].name, prod_name |-> p.name,
             key |-> printable_key(key)])
    /\ p_log' = Append(p_log, [name |-> p.name, outcome |-> "MATCH"])
    /\ p_pc' = AfterStep(p_cnt.processed + 1)
    /\ UNCHANGED <<p_posts, p_exit>>

\* lines 360-376: the key is not in the index: create (or preview) in the target
PStepMigrate(p, key) ==
    \E payload \in {[clean_project_for_aap(p, ORG_ID) EXCEPT !.name = PROD_PREFIX \o @]} :
      /\ p_pc' = AfterStep(p_cnt.processed + 1)
      /\ UNCHANGED p_exit
      /\ \/ /\ p_cfg.dry_run
            /\ p_receipt' = Append(p_receipt,
                    [kind |-> "DRYRUN-CREATE", name |-> payload.name, prod_name |-> p.name,
                     key |-> printable_key(key)])
            /\ p_cnt' = Inc(Inc(p_cnt, "processed"), "migrated")
            /\ p_log' = Append(p_log, [name |-> p.name, outcome |-> "DRYRUN-CREATE"])
            /\ UNCHANGED p_posts
         \/ /\ ~p_cfg.dry_run
            /\ p_posts' = Append(p_posts, [payload |-> payload, answer |-> "created"])
            /\ p_receipt' = Append(p_receipt,
                    [kind |-> "CREATED", aap_id |-> Len(p_posts) + 1, name |-> payload.name,
                     prod_name |-> p.name, key |-> printable_key(key)])
            /\ p_cnt' = Inc(Inc(p_cnt, "processed"), "migrated")
            /\ p_log' = Append(p_log, [name |-> p.name, outcome |-> "CREATED"])
         \/ /\ ~p_cfg.dry_run
            /\ p_posts' = Append(p_posts, [payload |-> payload, answer |-> "error"])
            /\ p_receipt' = Append(p_receipt,
                    [kind |-> "ERROR", prod_name |-> p.name, key |-> printable_key(key)])
            /\ p_cnt' = Inc(Inc(p_cnt, "processed"), "failures")
            /\ p_log' = Append(p_log, [name |-> p.name, outcome |-> "ERROR"])

\* lines 341-380: one iteration of the loop over prod_list
PStep ==
    /\ p_pc = "loop"
    /\ p_idx < Len(p_prod)
    /\ p_idx' = p_idx + 1
    /\ \E p \in {p_prod[p_idx + 1]} :
          \/ PStepFiltered(p)
          \/ /\ should_migrate(p.name, p_cfg.include, p_cfg.exclude)
             /\ \E k \in {project_key(p)} :
                   \/ /\ k.raised
                      /\ PStepKeyRaises(p)
                   \/ /\ ~k.raised
                      /\ KeyOf(k) \in DOMAIN p_map
                      /\ PStepMatch(p, KeyOf(k))
                   \/ /\ ~k.raised
                      /\ KeyOf(k) \notin DOMAIN p_map
                      /\ PStepMigrate(p, KeyOf(k))
    /\ UNCHANGED <<p_cfg, p_atst, p_prod, p_map, p_hist, outside_p>>

\* lines 382-405: the receipt is written and the run returns
PFinish ==
    /\ \/ p_pc = "break"
       \/ (p_pc = "loop" /\ p_idx = Len(p_prod))
    /\ p_pc' = "done"
    /\ p_exit' = IF p_cnt.failures = 0 THEN 0 ELSE 2
    /\ UNCHANGED <<p_cfg, p_atst, p_prod, p_map, p_idx, p_cnt, p_receipt, p_log, p_posts, p_hist, outside_p>>

\* the script is run again with the same arguments (but for --dry-run) over
\* the same listings
PRerun ==
    /\ p_pc = "done"
    /\ Len(p_hist) + 1 < MaxRuns
    /\ p_hist' = Append(p_hist, [cfg |-> p_cfg, log |-> p_log, posts |-> p_posts,
                                 exit |-> p_exit])
    /\ \E dry \in BOOLEAN : p_cfg' = [p_cfg EXCEPT !.dry_run = dry]
    /\ p_pc' = "start"
    /\ p_map' = EmptyMap
    /\ p_idx' = 0
    /\ p_cnt' = ZeroCounts
    /\ p_receipt' = <<>>
    /\ p_log' = <<>>
    /\ p_posts' = <<>>
    /\ p_exit' = -1
    /\ UNCHANGED <<p_atst, p_prod, outside_p>>

ProdNext == PPreflightFail \/ PLoad \/ PStep \/ PFinish \/ PRerun

PIdle ==
    /\ p_pc = "idle"
    /\ p_cfg = [dry_run |-> FALSE, limit |-> 0, include |-> NoRegex, exclude |-> NoRegex]
    /\ p_atst = <<>>
    /\ p_prod = <<>>
    /\ p_map = EmptyMap
    /\ p_idx = 0
    /\ p_cnt = ZeroCounts
    /\ p_receipt = <<>>
    /\ p_log = <<>>
    /\ p_posts = <<>>
    /\ p_exit = -1
    /\ p_hist = <<>>

(***************************************************************************)
(* Recurrence rules (migrate_job_templates.py): normalize_rrule and the    *)
(* DTSTART line it synthesises from the schedule's next run.               *)
(***************************************************************************)
\* None, where the code has an Optional[str]
NoneText == <<"None">>
\* truth value of an Optional[str]: None and "" are false
Truthy(t) == t # NoneText /\ t # <<>>
\* a or b
Or(a, b) == IF Truthy(a) THEN a ELSE b

TXT_DTSTART == <<"D","T","S","T","A","R","T">>
TXT_RRULE == <<"R","R","U","L","E",":">>
TXT_TZID == <<";","T","Z","I","D","=">>
\* the replacement r"\\1\n\\2": a backslash, 1, a newline, a backslash, 2
SUB_REPL == <<"\\","1","\n","\\","2">>

\* (DTSTART[^\n]+)\s+(RRULE:), case-insensitive, matched at position i of r:
\* the position of the last character of the match, 0 if there is none
SubMatchEnd(r, i) ==
    IF ~MatchAtCI(r, i, TXT_DTSTART) THEN 0
    ELSE LET K == {k \in (i + 9)..(Len(r) - 5) :
                     /\ MatchAtCI(r, k, TXT_RRULE)
                     /\ \E j \in (i + 7)..(k - 2) :
                           /\ \A x \in (i + 7)..j : r[x] # "\n"
                           /\ \A x \in (j + 1)..(k - 1) : IsSpace(r[x])}
         IN  IF K = {} THEN 0 ELSE SetMax(K) + 5

\* re.sub of that pattern by SUB_REPL in r[from:], leftmost matches first
RECURSIVE re_sub_from(_, _)
re_sub_from(r, from) ==
    LET I == {i \in from..Len(r) : SubMatchEnd(r, i) # 0}
    IN  IF I = {} THEN From(r, from)
        ELSE Bind(SetMin(I), LAMBDA i :
                 SubSeq(r, from, i - 1) \o SUB_REPL
                     \o re_sub_from(r, SubMatchEnd(r, i) + 1))

\* the positions where ^ matches under re.MULTILINE
LineStarts(r) == {1} \cup {i + 1 : i \in {x \in 1..Len(r) : r[x] = "\n"}}

\* RRULE_DT_RE.search(r): ^DTSTART(?:;TZID=[^:]+)?:
RRULE_DT_RE(r) ==
    \E p \in LineStarts(r) :
        /\ MatchAtCI(r, p, TXT_DTSTART)
        /\ \/ (p + 7 <= Len(r) /\ r[p + 7] = ":")
           \/ /\ MatchAtCI(r, p + 7, TXT_TZID)
              /\ \E c \in (p + 14)..Len(r) :
                    /\ r[c] = ":"
                    /\ \A x \in (p + 13)..(c - 1) : r[x] # ":"

\* RRULE_RULE_RE.search(r): ^RRULE:
RRULE_RULE_RE(r) == \E p \in LineStarts(r) : MatchAtCI(r, p, TXT_RRULE)

\* ---- datetime ----
IsLeap(y) == (y % 4 = 0 /\ y % 100 # 0) \/ y % 400 = 0
DaysInMonth(y, m) ==
    IF m = 2 THEN (IF IsLeap(y) THEN 29 ELSE 28)
    ELSE IF m \in {4, 6, 9, 11} THEN 30 ELSE 31

\* days since 1970-01-01 of a proleptic Gregorian date, and back
DaysFromCivil(y, m, d) ==
    LET yy == IF m <= 2 THEN y - 1 ELSE y
        era == yy \div 400
        yoe == yy - era * 400
        mp == (m + 9) % 12
        doy == (153 * mp + 2) \div 5 + d - 1
        doe == yoe * 365 + yoe \div 4 - yoe \div 100 + doy
    IN  era * 146097 + doe - 719468
CivilFromDays(z) ==
    LET zz == z + 719468
        era == zz \div 146097
        doe == zz - era * 146097
        yoe == (doe - doe \div 1460 + doe \div 36524 - doe \div 146096) \div 365
        doy == doe - (365 * yoe + yoe \div 4 - yoe \div 100)
        mp == (5 * doy + 2) \div 153
        d == doy - (153 * mp + 2) \div 5 + 1
        m == IF mp < 10 THEN mp + 3 ELSE mp - 9
        y == yoe + era * 400
    IN  [year |-> IF m <= 2 THEN y + 1 ELSE y, month |-> m, day |-> d]

\* str.replace("Z", "+00:00")
RECURSIVE ReplaceZ(_)
ReplaceZ(t) ==
    IF t = <<>> THEN <<>>
    ELSE (IF Head(t) = "Z" THEN <<"+","0","0",":","0","0">> ELSE <<Head(t)>>)
             \o ReplaceZ(Tail(t))

NoDatetime == [none |-> TRUE]
\* datetime.fromisoformat for the form YYYY-MM-DD(T| )HH:MM:SS(+|-)HH:MM, the
\* one form the generated timestamps have; any other text is a ValueError.
\* The value is an aware datetime: wall-clock fields and the offset in minutes.
fromisoformat(t) ==
    IF ~(/\ Len(t) = 25
         /\ IsDigitStr(SubSeq(t, 1, 4)) /\ t[5] = "-"
         /\ IsDigitStr(SubSeq(t, 6, 7)) /\ t[8] = "-"
         /\ IsDigitStr(SubSeq(t, 9, 10)) /\ t[11] \in {"T", " "}
         /\ IsDigitStr(SubSeq(t, 12, 13)) /\ t[14] = ":"
         /\ IsDigitStr(SubSeq(t, 15, 16)) /\ t[17] = ":"
         /\ IsDigitStr(SubSeq(t, 18, 19)) /\ t[20] \in {"+", "-"}
         /\ IsDigitStr(SubSeq(t, 21, 22)) /\ t[23] = ":"
         /\ IsDigitStr(SubSeq(t, 24, 25)))
    THEN NoDatetime
    ELSE Bind([year |-> StrToInt(SubSeq(t, 1, 4)), month |-> StrToInt(SubSeq(t, 6, 7)),
               day |-> StrToInt(SubSeq(t, 9, 10)), hour |-> StrToInt(SubSeq(t, 12, 13)),
               minute |-> StrToInt(SubSeq(t, 15, 16)), second |-> StrToInt(SubSeq(t, 18, 19)),
               oh |-> StrToInt(SubSeq(t, 21, 22)), om |-> StrToInt(SubSeq(t, 24, 25))],
              LAMBDA f :
                 IF /\ f.year >= 1 /\ f.month \in 1..12
                    /\ f.day >= 1 /\ f.day <= DaysInMonth(f.year, f.month)
                    /\ f.hour <= 23 /\ f.minute <= 59 /\ f.second <= 59
                    /\ f.oh <= 23 /\ f.om <= 59
                 THEN [none |-> FALSE, year |-> f.year, month |-> f.month, day |-> f.day,
                       hour |-> f.hour, minute |-> f.minute, second |-> f.second,
                       offset |-> (IF t[20] = "-" THEN -1 ELSE 1) * (f.oh * 60 + f.om)]
                 ELSE NoDatetime)

\* _parse_iso(dt): None when fromisoformat raises
_parse_iso(dt) ==
    IF EndsWith(dt, <<"Z">>) THEN fromisoformat(ReplaceZ(dt)) ELSE fromisoformat(dt)

\* d.astimezone(tz) for a timezone of a fixed offset, in minutes
astimezone(d, off) ==
    Bind(DaysFromCivil(d.year, d.month, d.day) * 1440 + d.hour * 60 + d.minute
             - d.offset + off,
         LAMBDA m :
            Bind(CivilFromDays(m \div 1440), LAMBDA c :
               [none |-> FALSE, year |-> c.year, month |-> c.month, day |-> c.day,
                hour |-> (m % 1440) \div 60, minute |-> m % 60, second |-> d.second,
                offset |-> off]))

\* d.strftime("%Y%m%dT%H%M%S")
strftime(d) ==
    Pad(d.year, 4) \o Pad(d.month, 2) \o Pad(d.day, 2) \o <<"T">>
        \o Pad(d.hour, 2) \o Pad(d.minute, 2) \o Pad(d.second, 2)

TZ_UTC == <<"U","T","C">>
TZ_TOKYO == <<"A","s","i","a","/","T","o","k","y","o">>
TZ_UNKNOWN == <<"M","a","r","s","/","P","h","o","b","o","s">>
\* ZoneInfo(tz): the zones of the generated schedules that the tz database
\* has, with their offset in minutes (neither has daylight saving time);
\* any other key raises ZoneInfoNotFoundError
ZoneInfo(tz) ==
    IF tz = TZ_UTC THEN [raised |-> FALSE, offset |-> 0]
    ELSE IF tz = TZ_TOKYO THEN [raised |-> FALSE, offset |-> 540]
    ELSE [raised |-> TRUE]

NoLine == [none |-> TRUE]
\* the UTC fallback of _format_dtstart
format_utc(d) ==
    [none |-> FALSE,
     text |-> TXT_DTSTART \o <<":">> \o strftime(astimezone(d, 0)) \o <<"Z">>]
\* the DTSTART line of a parsed next run
format_parsed(d, tz) ==
    IF d.none THEN NoLine
    ELSE IF Truthy(tz)
    THEN Bind(ZoneInfo(tz), LAMBDA z :
            IF z.raised THEN format_utc(d)
            ELSE [none |-> FALSE,
                  text |-> TXT_DTSTART \o TXT_TZID \o tz \o <<":">>
                               \o strftime(astimezone(d, z.offset))])
    ELSE format_utc(d)
\* a synthesis that falls back to the epoch when there is no usable next run
format_dtstart_epoch(next_run_iso, tz) ==
    [none |-> FALSE, text |-> <<"D","T","S","T","A","R","T",":","1","9","7","0","0","1","0","1","T","0","0","0","0","0","0","Z">>]
\* _format_dtstart(next_run_iso, tz): None, or the line as text
_format_dtstart(next_run_iso, tz) ==
    IF ~Truthy(next_run_iso) THEN NoLine
    ELSE Bind(_parse_iso(next_run_iso), LAMBDA d : format_parsed(d, tz))

\* a placement that puts the DTSTART line after the rule
place_dtstart_after(r, dt_line, has_rrule) ==
    IF dt_line.none \/ dt_line.text = <<>> THEN r
    ELSE r \o <<"\n">> \o dt_line.text
\* the rule after the DTSTART line dt_line has been placed
place_dtstart(r, dt_line, has_rrule) ==
    IF dt_line.none \/ dt_line.text = <<>> THEN r
    ELSE IF has_rrule
    THEN IF StartsWith(Upper(r), TXT_RRULE) THEN dt_line.text \o <<"\n">> \o r
         ELSE IF ~StartsWith(Upper(r), TXT_DTSTART) THEN dt_line.text \o <<"\n">> \o r
         ELSE r
    ELSE dt_line.text \o <<"\n">> \o r
\* normalize_rrule after the strip and the re.sub
normalize_stripped(r, next_run, timezone_str) ==
    Bind(RRULE_DT_RE(r), LAMBDA has_dtstart :
        Bind(IF ~has_dtstart THEN _format_dtstart(next_run, timezone_str) ELSE NoLine,
             LAMBDA dt_line : place_dtstart(r, dt_line, RRULE_RULE_RE(r))))
\* normalize_rrule(raw_rrule, next_run, timezone_str): the pair (r, timezone_str)
normalize_rrule(raw_rrule, next_run, timezone_str) ==
    Bind(Strip(IF Truthy(raw_rrule) THEN raw_rrule ELSE <<>>), LAMBDA r :
        IF r = <<>> THEN [rule |-> r, tz |-> timezone_str]
        ELSE [rule |-> Bind(re_sub_from(r, 1), LAMBDA r1 :
                           normalize_stripped(r1, next_run, timezone_str)),
              tz |-> timezone_str])

(***************************************************************************)
(* Schedule payloads and the four-variant submission                       *)
(* (migrate_job_templates.py): a schedule is a dict, modelled as a         *)
(* function whose domain is the keys that are present and not null.        *)
(* An Optional[int] is <<>> for None and <<n>> for n.                      *)
(***************************************************************************)
\* s.get(k) of a text field
GetText(s, k) == IF k \in DOMAIN s THEN s[k] ELSE NoneText
\* bool(s.get(k)) of a field whose empty value is e
GetTruthy(s, k, e) == k \in DOMAIN s /\ s[k] # e

AAP_HOST == <<"h","t","t","p","s",":","/","/","a","a","p">>
JT_PATH == <<"/","a","p","i","/","c","o","n","t","r","o","l","l","e","r","/","v","2","/",
             "j","o","b","_","t","e","m","p","l","a","t","e","s","/">>

\* the four keys every payload starts with
payload_base(s, jt_id, n) ==
    [name |-> IF "name" \in DOMAIN s THEN s.name ELSE "",
     enabled |-> IF "enabled" \in DOMAIN s THEN s.enabled ELSE TRUE,
     unified_job_template |-> jt_id,
     rrule |-> n.rule]
\* the keys both payloads add: timezone, inventory, limit
payload_common(s, jt_inventory_id, n) ==
    (IF Truthy(n.tz) THEN "timezone" :> n.tz ELSE EmptyMap)
    @@ (IF jt_inventory_id # <<>> THEN "inventory" :> jt_inventory_id[1] ELSE EmptyMap)
    @@ (IF GetTruthy(s, "limit", "") THEN "limit" :> s.limit ELSE EmptyMap)
\* the per-run overrides only schedule_payload_minimal copies
payload_overrides(s) ==
    (IF GetTruthy(s, "extra_data", EmptyMap) THEN "extra_data" :> s.extra_data ELSE EmptyMap)
    @@ (IF GetTruthy(s, "scm_branch", "") THEN "scm_branch" :> s.scm_branch ELSE EmptyMap)
    @@ (IF GetTruthy(s, "job_tags", "") THEN "job_tags" :> s.job_tags ELSE EmptyMap)
    @@ (IF GetTruthy(s, "skip_tags", "") THEN "skip_tags" :> s.skip_tags ELSE EmptyMap)
    @@ (IF "verbosity" \in DOMAIN s THEN "verbosity" :> s.verbosity ELSE EmptyMap)
    @@ (IF "forks" \in DOMAIN s THEN "forks" :> s.forks ELSE EmptyMap)
    @@ (IF "timeout" \in DOMAIN s THEN "timeout" :> s.timeout ELSE EmptyMap)
    @@ (IF GetTruthy(s, "execution_environment", 0)
        THEN "execution_environment" :> s.execution_environment ELSE EmptyMap)

\* the normalize_rrule call both payload builders start with
fixed_rrule(s) ==
    normalize_rrule(IF "rrule" \in DOMAIN s THEN s.rrule ELSE <<>>,
                    Or(GetText(s, "next_run"), GetText(s, "next_run_original")),
                    GetText(s, "timezone"))

\* schedule_payload_minimal: the "full" payload
schedule_payload_minimal(s, jt_id, jt_inventory_id, aap_host) ==
    Bind(fixed_rrule(s), LAMBDA n :
        payload_base(s, jt_id, n) @@ payload_common(s, jt_inventory_id, n)
            @@ payload_overrides(s))

\* a bare payload that copies the per-run overrides as well
schedule_payload_bare_overrides(s, jt_id, jt_inventory_id, aap_host) ==
    Bind(fixed_rrule(s), LAMBDA n :
        payload_base(s, jt_id, n) @@ payload_common(s, jt_inventory_id, n)
            @@ payload_overrides(s))

\* schedule_payload_bareminimum: the "bare" payload
schedule_payload_bareminimum(s, jt_id, jt_inventory_id, aap_host) ==
    Bind(fixed_rrule(s), LAMBDA n :
        payload_base(s, jt_id, n) @@ payload_common(s, jt_inventory_id, n))

\* a copy by URL that leaves out the inventory
with_ujt_url_trimmed(payload, jt_id, aap_host) ==
    [k \in DOMAIN payload \ {"inventory"} |->
        IF k = "unified_job_template"
        THEN aap_host \o JT_PATH \o IntToStr(jt_id) \o <<"/">>
        ELSE payload[k]]

\* with_ujt_url(payload): a copy whose owner is referenced by URL
with_ujt_url(payload, jt_id, aap_host) ==
    [k \in DOMAIN payload |->
        IF k = "unified_job_template"
        THEN aap_host \o JT_PATH \o IntToStr(jt_id) \o <<"/">>
        ELSE payload[k]]

\* the variants list of try_create_schedule
variants(s, jt_id, jt_inventory_id, aap_host) ==
    <<[label |-> "full-id",
       pl |-> schedule_payload_minimal(s, jt_id, jt_inventory_id, aap_host)],
      [label |-> "full-url",
       pl |-> with_ujt_url(schedule_payload_minimal(s, jt_id, jt_inventory_id, aap_host),
                           jt_id, aap_host)],
      [label |-> "bare-id",
       pl |-> schedule_payload_bareminimum(s, jt_id, jt_inventory_id, aap_host)],
      [label |-> "bare-url",
       pl |-> with_ujt_url(schedule_payload_bareminimum(s, jt_id, jt_inventory_id, aap_host),
                           jt_id, aap_host)]>>

\* the payload subset of a failure diagnostic; a key the payload lacks is null
DiagKeys == {"name", "unified_job_template", "timezone", "rrule", "inventory", "limit"}
diag(pl) == [k \in DiagKeys \cap DOMAIN pl |-> pl[k]]

\* what POST does with the target's answer: a 2xx returns, anything else
\* (a validation rejection, another status, a network failure) raises
Answers == {"ok", "validation", "transport"}
Raises(answer) == answer # "ok"

(***************************************************************************)
(* Generated schedules                                                     *)
(***************************************************************************)
\* the rule of the specification's example
R_DAILY == <<"R","R","U","L","E",":","F","R","E","Q","=","D","A","I","L","Y">>
\* surrounded by whitespace
R_PADDED == <<" "," ","R","R","U","L","E",":","X","\n">>
\* keyword in lower case
R_LOWER == <<"r","r","u","l","e",":","x">>
\* no RRULE: keyword
R_NOKEY == <<"F","R","E","Q","=","D","A","I","L","Y">>
\* RRULE: on the second line
R_SECOND == <<"X","\n","R","R","U","L","E",":","Y">>
\* an anchor, a space, the rule
R_ANCHORED == <<"D","T","S","T","A","R","T",":","2","0","2","5","0","1","0","1","T","0","0","0","0","0","0","Z"," ","R","R","U","L","E",":","X">>
\* an anchor line, then the rule line
R_ANCHORED_NL == <<"D","T","S","T","A","R","T",";","T","Z","I","D","=","U","T","C",":","2","0","2","5","0","1","0","1","T","0","0","0","0","0","0","\n","R","R","U","L","E",":","X">>
\* an anchor and nothing else
R_ANCHOR_ONLY == <<"D","T","S","T","A","R","T",":","2","0","2","5","0","1","0","1","T","0","0","0","0","0","0","Z">>
\* empty once stripped
R_BLANK == <<" "," ">>
RulePool == {R_DAILY, R_PADDED, R_LOWER, R_NOKEY, R_SECOND, R_ANCHORED, R_ANCHORED_NL, R_ANCHOR_ONLY, R_BLANK}
\* next-run timestamps: UTC, an offset that crosses midnight and the year, unparseable
N_UTC == <<"2","0","2","5","-","1","0","-","1","6","T","1","4",":","0","0",":","0","0","Z">>
N_EST == <<"2","0","2","5","-","1","2","-","3","1","T","2","3",":","3","0",":","0","0","-","0","5",":","0","0">>
N_BAD == <<"t","o","m","o","r","r","o","w">>
\* the next_run / next_run_original keys of a schedule
NextRunPool ==
    {EmptyMap, "next_run" :> N_UTC, "next_run" :> N_EST, "next_run" :> N_BAD,
     "next_run_original" :> N_UTC}
\* the timezone key: absent, empty, resolvable, unknown to the tz database
TimezonePool ==
    {EmptyMap, "timezone" :> <<>>, "timezone" :> TZ_TOKYO, "timezone" :> TZ_UNKNOWN}
\* per-run overrides: none, all of them set, all of them present but empty
OverridePool ==
    {EmptyMap,
     [enabled |-> FALSE, extra_data |-> [env |-> "prod"], scm_branch |-> "main",
      limit |-> "web", job_tags |-> "deploy", skip_tags |-> "slow",
      verbosity |-> 1, forks |-> 5, timeout |-> 60, execution_environment |-> 3],
     [extra_data |-> EmptyMap, scm_branch |-> "", limit |-> "", job_tags |-> "",
      skip_tags |-> "", verbosity |-> 0, forks |-> 0, timeout |-> 0,
      execution_environment |-> 0]}
SchedulePool ==
    {("name" :> "nightly") @@ r @@ n @@ t @@ o :
        r \in {EmptyMap} \cup {"rrule" :> x : x \in RulePool},
        n \in NextRunPool, t \in TimezonePool, o \in OverridePool}
\* the JT's inventory on the target: unresolved (None) or an id
InventoryPool == {<<>>, <<5>>}

(***************************************************************************)
(* The schedule step of migrate_one and try_create_schedule                *)
(***************************************************************************)
SchedInit ==
    /\ s_pc = "init"
    /\ s_in \in [s : SchedulePool, jt_id : {42}, jt_inventory_id : InventoryPool,
                 dry_run : BOOLEAN]
    /\ s_variants = <<>>
    /\ s_i = 0
    /\ s_posts = <<>>
    /\ s_events = <<>>
    /\ s_created = 0
    /\ s_ret = "none"

\* raw_rrule of migrate_one: (s.get("rrule") or "").strip()
raw_rrule(s) == IF "rrule" \in DOMAIN s THEN Strip(s.rrule) ELSE <<>>
ScheduleName(s) == IF "name" \in DOMAIN s THEN s.name ELSE ""

\* a schedule without a rule is skipped
SSkipEmpty ==
    /\ s_pc = "init"
    /\ raw_rrule(s_in.s) = <<>>
    /\ s_events' = Append(s_events, [event |-> "schedule.skip.empty_rrule",
                                     name |-> ScheduleName(s_in.s)])
    /\ s_pc' = "skipped"
    /\ UNCHANGED <<s_in, s_variants, s_i, s_posts, s_created, s_ret, outside_s>>

\* a dry run counts the schedule as created and submits nothing
SDryRun ==
    /\ s_pc = "init"
    /\ raw_rrule(s_in.s) # <<>>
    /\ s_in.dry_run
    /\ s_events' = Append(s_events, [event |-> "schedule.dryrun",
                                     name |-> ScheduleName(s_in.s)])
    /\ s_created' = s_created + 1
    /\ s_pc' = "dryrun"
    /\ UNCHANGED <<s_in, s_variants, s_i, s_posts, s_ret, outside_s>>

\* try_create_schedule is entered: the variants list is built
SBuild ==
    /\ s_pc = "init"
    /\ raw_rrule(s_in.s) # <<>>
    /\ ~s_in.dry_run
    /\ s_variants' = variants(s_in.s, s_in.jt_id, s_in.jt_inventory_id, AAP_HOST)
    /\ s_pc' = "try"
    /\ UNCHANGED <<s_in, s_i, s_posts, s_events, s_created, s_ret, outside_s>>

\* str(pl.get("unified_job_template")): the id in decimal, or the URL
ujt_str(v) == IF v.label \in {"full-id", "bare-id"}
              THEN IntToStr(v.pl.unified_job_template)
              ELSE v.pl.unified_job_template

\* a loop that records the success and goes on to the next variant
SAcceptAndGoOn ==
    /\ s_pc = "try"
    /\ s_i < Len(s_variants)
    /\ \E v \in {s_variants[s_i + 1]} :
          /\ s_posts' = Append(s_posts, [label |-> v.label, pl |-> v.pl, answer |-> "ok"])
          /\ s_events' = Append(s_events,
                [event |-> "schedule.create.ok", attempt |-> s_i + 1, variant |-> v.label,
                 name |-> v.pl.name, ujt |-> ujt_str(v)])
    /\ s_i' = s_i + 1
    /\ s_ret' = "true"
    /\ s_created' = s_created + 1
    /\ UNCHANGED <<s_pc, s_in, s_variants, outside_s>>

\* one iteration of the loop whose POST returns: success, no further POST
SAccept ==
    /\ s_pc = "try"
    /\ s_i < Len(s_variants)
    /\ \E v \in {s_variants[s_i + 1]} :
          /\ s_posts' = Append(s_posts, [label |-> v.label, pl |-> v.pl, answer |-> "ok"])
          /\ s_events' = Append(s_events,
                [event |-> "schedule.create.ok", attempt |-> s_i + 1, variant |-> v.label,
                 name |-> v.pl.name, ujt |-> ujt_str(v)])
    /\ s_i' = s_i + 1
    /\ s_ret' = "true"
    /\ s_created' = s_created + 1
    /\ s_pc' = "ok"
    /\ UNCHANGED <<s_in, s_variants, outside_s>>

\* a loop that keeps the diagnostic of the latest failure only
SRejectKeepLast ==
    /\ s_pc = "try"
    /\ s_i < Len(s_variants)
    /\ \E answer \in {a \in Answers : Raises(a)} :
       \E v \in {s_variants[s_i + 1]} :
          /\ s_posts' = Append(s_posts, [label |-> v.label, pl |-> v.pl, answer |-> answer])
          /\ s_events' = Append(
                SelectSeq(s_events, LAMBDA e : e.event # "schedule.create.fail"),
                [event |-> "schedule.create.fail", attempt |-> s_i + 1, variant |-> v.label,
                 payload |-> diag(v.pl), error |-> answer])
    /\ s_i' = s_i + 1
    /\ UNCHANGED <<s_pc, s_in, s_variants, s_created, s_ret, outside_s>>

\* one iteration of the loop whose POST raises: a diagnostic, the next variant
SReject ==
    /\ s_pc = "try"
    /\ s_i < Len(s_variants)
    /\ \E answer \in {a \in Answers : Raises(a)} :
       \E v \in {s_variants[s_i + 1]} :
          /\ s_posts' = Append(s_posts, [label |-> v.label, pl |-> v.pl, answer |-> answer])
          /\ s_events' = Append(s_events,
                [event |-> "schedule.create.fail", attempt |-> s_i + 1, variant |-> v.label,
                 payload |-> diag(v.pl), error |-> answer])
    /\ s_i' = s_i + 1
    /\ UNCHANGED <<s_pc, s_in, s_variants, s_created, s_ret, outside_s>>

\* the loop ends without a success: False, and migrate_one gives up
SGiveUp ==
    /\ s_pc = "try"
    /\ s_i = Len(s_variants)
    /\ s_ret' = "false"
    /\ s_events' = Append(s_events, [event |-> "schedule.create.giveup",
                                     name |-> ScheduleName(s_in.s)])
    /\ s_pc' = "exhausted"
    /\ UNCHANGED <<s_in, s_variants, s_i, s_posts, s_created, outside_s>>

SchedNext == SSkipEmpty \/ SDryRun \/ SBuild \/ SAccept \/ SReject \/ SGiveUp

SIdle ==
    /\ s_pc = "idle"
    /\ s_in = [s |-> EmptyMap, jt_id |-> 0, jt_inventory_id |-> <<>>, dry_run |-> FALSE]
    /\ s_variants = <<>>
    /\ s_i = 0
    /\ s_posts = <<>>
    /\ s_events = <<>>
    /\ s_created = 0
    /\ s_ret = "none"

(***************************************************************************)
(* Notification secrets (migrate_job_templates.py): merge_email_config.    *)
(* A configuration is a dict from field names to values; a value is text,  *)
(* None (NoneText) or a value that is not a str (the port number).         *)
(***************************************************************************)
STARS8 == <<"*","*","*","*","*","*","*","*">>
STARS5 == <<"*","*","*","*","*">>
STARS6 == <<"*","*","*","*","*","*">>
REDACTED_LC == <<"<","r","e","d","a","c","t","e","d",">">>
REDACTED_UC == <<"<","R","E","D","A","C","T","E","D",">">>
\* REDACTIONS (line 451)
REDACTIONS == {STARS8, STARS5, STARS6, REDACTED_LC, REDACTED_UC}
\* a configuration value that is an int
PORT_25 == <<"25 (int)">>
\* isinstance(v, str)
IsStr(v) == v \notin {NoneText, PORT_25}
\* v in (None, "")
NoneOrEmpty(v) == v = NoneText \/ v = <<>>

\* a merge in which the local secrets always win
merge_local_first(src, secrets) ==
    [k \in DOMAIN src \cup DOMAIN secrets |->
        IF k \in DOMAIN secrets THEN secrets[k] ELSE src[k]]
\* a merge that fills the exported keys and adds none
merge_without_additions(src, secrets) ==
    [k \in DOMAIN src |->
        IF /\ NoneOrEmpty(src[k]) \/ (IsStr(src[k]) /\ Strip(src[k]) \in REDACTIONS)
           /\ k \in DOMAIN secrets
        THEN secrets[k] ELSE src[k]]

\* the first loop (lines 470-473): empty and redacted values take the secret
merge_redacted(out, secrets) ==
    [k \in DOMAIN out |->
        IF /\ NoneOrEmpty(out[k]) \/ (IsStr(out[k]) /\ Strip(out[k]) \in REDACTIONS)
           /\ k \in DOMAIN secrets
        THEN secrets[k] ELSE out[k]]
\* the second loop (lines 474-476): secrets whose key is absent or still empty;
\* an iteration writes its own key only, so the order of the keys is immaterial
merge_missing(out, secrets) ==
    [k \in DOMAIN out \cup DOMAIN secrets |->
        IF k \in DOMAIN secrets /\ (k \notin DOMAIN out \/ NoneOrEmpty(out[k]))
        THEN secrets[k] ELSE out[k]]
\* merge_email_config(src, secrets)
merge_email_config(src, secrets) ==
    Bind(merge_redacted(src, secrets), LAMBDA out : merge_missing(out, secrets))

\* generated configurations
V_REAL == <<"r","e","a","l">>
V_PADDED == <<" ","<","R","E","D","A","C","T","E","D",">"," ">>
V_BLANK == <<" "," ">>
V_LOCAL == <<"p","@","s","s">>
SrcValues == {NoneText, <<>>, STARS8, V_PADDED, V_BLANK, V_REAL, PORT_25}
SecretValues == {V_LOCAL, <<>>, STARS8, NoneText}
\* every dict with keys among K and values among V
Dicts(K, V) == UNION {[D -> V] : D \in SUBSET K}

MergeInit ==
    /\ m_pc = "init"
    /\ m_src \in Dicts({"host", "password"}, SrcValues)
    /\ m_secrets \in Dicts({"host", "password", "username"}, SecretValues)
    /\ m_out = EmptyMap
    /\ m_twice = EmptyMap

\* a merge that writes into the dict it was given
MMergeInPlace ==
    /\ m_pc = "init"
    /\ m_out' = merge_email_config(m_src, m_secrets)
    /\ m_src' = m_out'
    /\ m_pc' = "done"
    /\ UNCHANGED <<m_secrets, m_twice, outside_m>>

\* attach_notifs_email, lines 507-508: the configuration to create is merged
MMerge ==
    /\ m_pc = "init"
    /\ m_out' = merge_email_config(m_src, m_secrets)
    /\ m_pc' = "done"
    /\ UNCHANGED <<m_src, m_secrets, m_twice, outside_m>>

\* merge_email_config applied to its own result and the same secrets
MMergeAgain ==
    /\ m_pc = "done"
    /\ m_twice' = merge_email_config(m_out, m_secrets)
    /\ m_pc' = "again"
    /\ UNCHANGED <<m_src, m_secrets, m_out, outside_m>>

MergeNext == MMerge \/ MMergeAgain

MIdle ==
    /\ m_pc = "idle"
    /\ m_src = EmptyMap
    /\ m_secrets = EmptyMap
    /\ m_out = EmptyMap
    /\ m_twice = EmptyMap

(***************************************************************************)
(* migrate_job_templates.py: main and migrate_one against a target.        *)
(*                                                                         *)
(* A job template of the source carries what the code reads of it and of   *)
(* its sub-resources: name, the names of its project and inventory ("" for *)
(* none), its credentials, whether it has a survey, its notification       *)
(* templates and its schedules.  The target is a record of what its        *)
(* endpoints hold and of how it answers:                                   *)
(*   projects, inventories, jts, notifs : name -> id, in the organization  *)
(*   ees, cred_orgs  : id -> organization (<<>> for none)                  *)
(*   credentials     : the credentials of the organization, in list order  *)
(*   credential_types: type name -> id                                     *)
(*   schedules       : names of the schedules created, in order            *)
(*   reject          : names whose job-template create it rejects          *)
(*   accepts         : labels of the schedule variants it accepts          *)
(*   down            : endpoints whose GET fails (transport error)         *)
(***************************************************************************)
MaxJts == 2      \* longest source listing of job templates

TYPE_MACHINE == <<"M","a","c","h","i","n","e">>
TYPE_VAULT == <<"V","a","u","l","t">>
TXT_MACHINE_LC == <<"m","a","c","h","i","n","e">>
TXT_EMAIL == <<"e","m","a","i","l">>
TXT_EMAIL_UC == <<"E","m","a","i","l">>
TXT_SLACK == <<"s","l","a","c","k">>

\* the state of one migrate_one call: the target, the calls made so far,
\* whether an exception is propagating, and the locals the steps share
Ctx(tgt) ==
    [tgt |-> tgt, calls |-> <<>>, gets |-> <<>>, raised |-> FALSE, error |-> "",
     proj_id |-> <<>>, inv_id |-> <<>>, jt_id |-> <<>>, ids |-> <<>>, found |-> <<>>,
     created_cnt |-> 0, events |-> <<>>, about |-> [kind |-> "", name |-> "", org |-> 0]]

\* statement sequencing: the next statement runs unless an exception propagates
Then(c, F(_)) == Bind(c, LAMBDA v : IF v.raised THEN v ELSE F(v))

Raise(c, e) == [c EXCEPT !.raised = TRUE, !.error = e]
\* RuntimeError(f"{kind} '{name}' not found in AAP org {org}")
RaiseNotFound(c, kind, name, org) ==
    [c EXCEPT !.raised = TRUE, !.error = "not found",
              !.about = [kind |-> kind, name |-> name, org |-> org]]

\* GET: a read of a target endpoint, raising on any status but 200
GET(c, what, name) ==
    Bind([c EXCEPT !.gets = Append(@, [what |-> what, name |-> name])], LAMBDA c1 :
        IF what \in c.tgt.down THEN Raise(c1, "GET failed") ELSE c1)

\* whether the target answers a mutating call with an error status
Rejected(tgt, what, name, label) ==
    IF what = "schedules" THEN label \notin tgt.accepts
    ELSE [what |-> what, name |-> name] \in tgt.reject

\* POST and PATCH: the mutating calls, logged in the order issued, raising
\* on an error status.  name is the entity the call is about, id the id it
\* attaches (<<>> for none), label the schedule variant ("" for none).
Mutating(c, m, what, name, id, label) ==
    Bind([c EXCEPT !.calls = Append(@, [m |-> m, what |-> what, name |-> name,
                                        id |-> id, label |-> label])], LAMBDA c1 :
        IF Rejected(c.tgt, what, name, label) THEN Raise(c1, m \o " failed") ELSE c1)
POST(c, what, name, id, label) == Mutating(c, "POST", what, name, id, label)
PATCH(c, what, name, id, label) == Mutating(c, "PATCH", what, name, id, label)

\* q_one: the first result of the lookup by name and organization, or None
q_one(c, endpoint, name) ==
    Then(GET(c, endpoint, name), LAMBDA c1 :
        [c1 EXCEPT !.found = IF name \in DOMAIN c1.tgt[endpoint]
                             THEN <<c1.tgt[endpoint][name]>> ELSE <<>>])

assert_ee_exists_by_id(c, ee_id, org_id) ==
    Then(GET(c, "execution_environments", "by id"), LAMBDA c1 :
        IF ee_id \notin DOMAIN c1.tgt.ees THEN Raise(c1, "GET failed")
        ELSE IF c1.tgt.ees[ee_id] \notin {<<>>, <<org_id>>} THEN Raise(c1, "EE of another organization")
        ELSE c1)

assert_credential_exists_by_id(c, cred_id, org_id) ==
    Then(GET(c, "credentials", "by id"), LAMBDA c1 :
        IF cred_id \notin DOMAIN c1.tgt.cred_orgs THEN Raise(c1, "GET failed")
        ELSE IF c1.tgt.cred_orgs[cred_id] \notin {<<>>, <<org_id>>}
             THEN Raise(c1, "credential of another organization")
        ELSE c1)

\* a lookup that asks the target and reports no job template
find_aap_jt_none(c, name) ==
    Then(GET(c, "job_templates", name), LAMBDA c1 : [c1 EXCEPT !.found = <<>>])

\* find_aap_jt is q_one on job_templates
find_aap_jt(c, name) == q_one(c, "job_templates", name)

\* lines 574-578 of ensure_refs
ensure_project(c, org, proj_name) ==
    IF proj_name = "" THEN c
    ELSE Then(q_one(c, "projects", proj_name), LAMBDA c1 :
            IF c1.found = <<>> THEN RaiseNotFound(c1, "Project", proj_name, org)
            ELSE [c1 EXCEPT !.proj_id = c1.found])

\* an inventory lookup that takes no match for an answer
ensure_inventory_unchecked(c, org, inv_name) ==
    IF inv_name = "" THEN c
    ELSE Then(q_one(c, "inventories", inv_name), LAMBDA c1 :
            [c1 EXCEPT !.inv_id = c1.found])

\* lines 579-583 of ensure_refs
ensure_inventory(c, org, inv_name) ==
    IF inv_name = "" THEN c
    ELSE Then(q_one(c, "inventories", inv_name), LAMBDA c1 :
            IF c1.found = <<>> THEN RaiseNotFound(c1, "Inventory", inv_name, org)
            ELSE [c1 EXCEPT !.inv_id = c1.found])

\* lines 584-587 of ensure_refs
ensure_ee(c, org, forced_ee_id) ==
    IF forced_ee_id = <<>> THEN Raise(c, "You must supply --force-ee-id")
    ELSE assert_ee_exists_by_id(c, forced_ee_id[1], org)

ensure_refs(c, org, proj_name, inv_name, forced_ee_id) ==
    Then(ensure_project(c, org, proj_name), LAMBDA c1 :
    Then(ensure_inventory(c1, org, inv_name), LAMBDA c2 :
    ensure_ee(c2, org, forced_ee_id)))

\* the credentials of the organization named name, in list order
CredsNamed(tgt, name) == SelectSeq(tgt.credentials, LAMBDA r : r.name = name)

\* aap_get_credential_type_id_by_name
aap_get_credential_type_id_by_name(c, name) ==
    Then(GET(c, "credential_types", "by type"), LAMBDA c1 :
        [c1 EXCEPT !.found = IF name \in DOMAIN c1.tgt.credential_types
                             THEN <<c1.tgt.credential_types[name]>> ELSE <<>>])

\* lines 380-387: the query narrowed to the credential type, when it has an id
find_credential_of_type(c, res, ctid) ==
    Then(GET(c, "credentials", "by type"), LAMBDA c1 :
        Bind(SelectSeq(res, LAMBDA r : r.tid = ctid), LAMBDA res2 :
            [c1 EXCEPT !.found = IF res2 # <<>> THEN <<res2[1]>> ELSE <<>>]))

\* aap_find_credential: found is <<the credential>> or <<>> for None
aap_find_credential(c, name, awx_ctype_name) ==
    Then(GET(c, "credentials", name), LAMBDA c1 :
    Bind(CredsNamed(c1.tgt, name), LAMBDA res :
    Bind({i \in 1..Len(res) : Truthy(res[i].type) /\ res[i].type = awx_ctype_name}, LAMBDA same :
        IF Len(res) = 1 THEN [c1 EXCEPT !.found = <<res[1]>>]
        ELSE IF Len(res) > 1 /\ Truthy(awx_ctype_name) /\ same # {}
             THEN [c1 EXCEPT !.found = <<res[SetMin(same)]>>]
        ELSE IF Truthy(awx_ctype_name)
             THEN Then(aap_get_credential_type_id_by_name(c1, awx_ctype_name), LAMBDA c2 :
                    IF c2.found # <<>> /\ c2.found[1] # 0
                    THEN find_credential_of_type(c2, res, c2.found[1])
                    ELSE [c2 EXCEPT !.found = IF res # <<>> THEN <<res[1]>> ELSE <<>>])
        ELSE [c1 EXCEPT !.found = IF res # <<>> THEN <<res[1]>> ELSE <<>>])))

\* ids.append(cid) unless it is there
AddId(c, cid) ==
    IF \E i \in 1..Len(c.ids) : c.ids[i] = cid THEN c
    ELSE [c EXCEPT !.ids = Append(@, cid)]

\* lines 539-558: the body of the loop of resolve_cred_ids for credential cr
resolve_cred(c, org, cr, force_machine_cred_id) ==
    IF force_machine_cred_id # <<>> /\ Lower(Or(cr.type, <<>>)) = TXT_MACHINE_LC
    THEN Then(assert_credential_exists_by_id(c, force_machine_cred_id[1], org), LAMBDA c1 :
            AddId(c1, force_machine_cred_id[1]))
    ELSE IF cr.name = "" THEN c
    ELSE Then(aap_find_credential(c, cr.name, cr.type), LAMBDA c1 :
            IF c1.found = <<>> THEN Raise(c1, "credential not found")
            ELSE AddId(c1, c1.found[1].id))

\* resolve_cred_ids: the ids are left in c.ids
RECURSIVE resolve_cred_ids(_, _, _, _)
resolve_cred_ids(c, org, creds, force_machine_cred_id) ==
    IF creds = <<>> THEN c
    ELSE Then(resolve_cred(c, org, Head(creds), force_machine_cred_id), LAMBDA c1 :
            resolve_cred_ids(c1, org, Tail(creds), force_machine_cred_id))

\* lines 654-655: attach_cred_to_jt for every resolved id
RECURSIVE attach_creds(_, _, _)
attach_creds(c, name, ids) ==
    IF ids = <<>> THEN c
    ELSE Then(POST(c, "job_templates/credentials", name, <<Head(ids)>>, ""), LAMBDA c1 :
            attach_creds(c1, name, Tail(ids)))

\* the id the target gives to the next object it creates
NewId(tgt) ==
    100 + Cardinality(DOMAIN tgt.job_templates) + Cardinality(DOMAIN tgt.notification_templates)

\* a create that is tried a second time when the target refuses it
create_jt_retried(c, name) ==
    Bind(POST(c, "job_templates", name, <<>>, ""), LAMBDA c1 :
        IF c1.raised THEN POST([c1 EXCEPT !.raised = FALSE, !.error = ""],
                               "job_templates", name, <<>>, "")
        ELSE Bind(NewId(c1.tgt), LAMBDA id :
                [c1 EXCEPT !.jt_id = <<id>>,
                           !.tgt.job_templates = SetItem(@, name, id)]))

\* create_jt, and what the target holds afterwards
create_jt(c, name) ==
    Then(POST(c, "job_templates", name, <<>>, ""), LAMBDA c1 :
        Bind(NewId(c1.tgt), LAMBDA id :
            [c1 EXCEPT !.jt_id = <<id>>,
                       !.tgt.job_templates = SetItem(@, name, id)]))

\* post_survey_spec_to_aap
post_survey_spec_to_aap(c, name) ==
    Then(POST(c, "job_templates/survey_spec", name, <<>>, ""), LAMBDA c1 :
        PATCH(c1, "job_templates", name, <<>>, ""))

\* lines 636-644: the verification read, whose failure is only a warning
verify(c, what, name) ==
    [c EXCEPT !.gets = Append(@, [what |-> what, name |-> name])]

\* a loop body that creates the notification template without looking it up
attach_notif_unchecked(c, jt_name, kind, n, dry_run) ==
    IF Lower(Or(n.notification_type, <<>>)) # TXT_EMAIL THEN c
    ELSE IF n.name = "" THEN c
    ELSE Then(POST(c, "notification_templates", n.name, <<>>, ""), LAMBDA c2 :
         Bind(NewId(c2.tgt), LAMBDA id :
            POST([c2 EXCEPT !.tgt.notification_templates = SetItem(@, n.name, id)],
                 "job_templates/notification_templates_" \o kind, jt_name, <<id>>, "")))

\* lines 500-522: the body of the loop of attach_notifs_email for one
\* notification n of kind kind
attach_notif(c, jt_name, kind, n, dry_run) ==
    IF Lower(Or(n.notification_type, <<>>)) # TXT_EMAIL THEN c
    ELSE IF n.name = "" THEN c
    ELSE Then(q_one(c, "notification_templates", n.name), LAMBDA c1 :
         Then(IF c1.found = <<>>
              THEN IF dry_run THEN [c1 EXCEPT !.found = <<-1>>]
                   ELSE Then(POST(c1, "notification_templates", n.name, <<>>, ""), LAMBDA c2 :
                          Bind(NewId(c2.tgt), LAMBDA id :
                            [c2 EXCEPT !.found = <<id>>,
                                       !.tgt.notification_templates = SetItem(@, n.name, id)]))
              ELSE c1, LAMBDA c3 :
            IF dry_run THEN c3
            ELSE POST(c3, "job_templates/notification_templates_" \o kind, jt_name,
                      c3.found, "")))

RECURSIVE attach_notifs_of_kind(_, _, _, _, _)
attach_notifs_of_kind(c, jt_name, kind, ns, dry_run) ==
    IF ns = <<>> THEN c
    ELSE Then(attach_notif(c, jt_name, kind, Head(ns), dry_run), LAMBDA c1 :
            attach_notifs_of_kind(c1, jt_name, kind, Tail(ns), dry_run))

\* attach_notifs_email: the kinds in the order of kind_to_path
attach_notifs_email(c, jt_name, notifs, dry_run) ==
    Then(attach_notifs_of_kind(c, jt_name, "started", notifs.started, dry_run), LAMBDA c1 :
    Then(attach_notifs_of_kind(c1, jt_name, "success", notifs.success, dry_run), LAMBDA c2 :
    attach_notifs_of_kind(c2, jt_name, "error", notifs.error, dry_run)))

Emit(c, e) == [c EXCEPT !.events = Append(@, e)]

\* the loop of try_create_schedule from variant n on: found is <<1>> for
\* True and <<>> for False
RECURSIVE try_create_schedule(_, _, _)
try_create_schedule(c, vs, n) ==
    IF n > Len(vs) THEN [c EXCEPT !.found = <<>>]
    ELSE Bind(POST(c, "schedules", vs[n].pl.name, <<>>, vs[n].label), LAMBDA c1 :
            IF c1.raised
            THEN try_create_schedule(
                    Emit([c1 EXCEPT !.raised = FALSE, !.error = ""],
                         [event |-> "schedule.create.fail", name |-> vs[n].pl.name]),
                    vs, n + 1)
            ELSE Emit([c1 EXCEPT !.found = <<1>>,
                                 !.tgt.schedules = Append(@, vs[n].pl.name)],
                      [event |-> "schedule.create.ok", name |-> vs[n].pl.name]))

\* lines 674-695: the body of the schedule loop of migrate_one
migrate_schedule(c, s, dry_run) ==
    IF raw_rrule(s) = <<>>
    THEN Emit(c, [event |-> "schedule.skip.empty_rrule", name |-> ScheduleName(s)])
    ELSE IF dry_run
    THEN Emit([c EXCEPT !.created_cnt = @ + 1],
              [event |-> "schedule.dryrun", name |-> ScheduleName(s)])
    ELSE Then(try_create_schedule(c, variants(s, c.jt_id[1], c.inv_id, AAP_HOST), 1), LAMBDA c1 :
            IF c1.found # <<>> THEN [c1 EXCEPT !.created_cnt = @ + 1]
            ELSE Emit(c1, [event |-> "schedule.create.giveup", name |-> ScheduleName(s)]))

RECURSIVE migrate_schedules(_, _, _)
migrate_schedules(c, schedules, dry_run) ==
    IF schedules = <<>> THEN c
    ELSE Then(migrate_schedule(c, Head(schedules), dry_run), LAMBDA c1 :
            migrate_schedules(c1, Tail(schedules), dry_run))

\* a survey step that does not look at --dry-run
migrate_survey_always(c, args, obj) ==
    IF ~obj.survey THEN c
    ELSE Then(post_survey_spec_to_aap(c, obj.name), LAMBDA c1 :
            verify(c1, "job_templates/survey_spec", obj.name))

\* lines 629-644 of migrate_one
migrate_survey(c, args, obj) ==
    IF ~obj.survey THEN c
    ELSE IF args.dry_run THEN c
    ELSE Then(post_survey_spec_to_aap(c, obj.name), LAMBDA c1 :
            verify(c1, "job_templates/survey_spec", obj.name))

\* a credentials step that attaches each credential as soon as it is resolved
RECURSIVE attach_as_resolved(_, _, _, _)
attach_as_resolved(c, name, creds, force_machine_cred_id) ==
    IF creds = <<>> THEN c
    ELSE Then(resolve_cred([c EXCEPT !.ids = <<>>], ORG_ID, Head(creds), force_machine_cred_id),
              LAMBDA c1 :
         Then(attach_creds(c1, name, c1.ids), LAMBDA c2 :
            attach_as_resolved(c2, name, Tail(creds), force_machine_cred_id)))
migrate_creds_eager(c, args, obj) ==
    IF obj.creds = <<>> THEN c
    ELSE IF args.dry_run THEN c
    ELSE attach_as_resolved(c, obj.name, obj.creds, args.force_machine_cred_id)

\* lines 646-656 of migrate_one
migrate_creds(c, args, obj) ==
    IF obj.creds = <<>> THEN c
    ELSE IF args.dry_run THEN c
    ELSE Then(resolve_cred_ids(c, ORG_ID, obj.creds, args.force_machine_cred_id), LAMBDA c1 :
            attach_creds(c1, obj.name, c1.ids))

\* lines 658-667 of migrate_one
migrate_notifs(c, args, obj) ==
    IF ~args.with_notifications THEN c
    ELSE IF obj.notifs.started = <<>> /\ obj.notifs.success = <<>> /\ obj.notifs.error = <<>>
    THEN c
    ELSE IF args.dry_run THEN c
    ELSE attach_notifs_email(c, obj.name, obj.notifs, args.dry_run)

\* lines 669-706 of migrate_one
migrate_scheds(c, args, obj) ==
    IF ~args.with_schedules THEN c
    ELSE Then(migrate_schedules(c, obj.schedules, args.dry_run), LAMBDA c1 :
            verify(c1, "job_templates/schedules", obj.name))

\* lines 625-706 of migrate_one: what follows once jt_id is known
migrate_attachments(c, args, obj) ==
    IF c.jt_id = <<>> THEN Raise(c, "Internal error: jt_id not set")
    ELSE Then(migrate_survey(c, args, obj), LAMBDA c1 :
         Then(migrate_creds(c1, args, obj), LAMBDA c2 :
         Then(migrate_notifs(c2, args, obj), LAMBDA c3 :
         migrate_scheds(c3, args, obj))))

\* migrate_one: the context after the call; raised tells whether it raised
migrate_one(tgt, args, obj) ==
    Then(ensure_refs(Ctx(tgt), ORG_ID, obj.project, obj.inventory, args.force_ee_id), LAMBDA c1 :
    Then(find_aap_jt(c1, obj.name), LAMBDA c2 :
        IF c2.found # <<>>
        THEN migrate_attachments([c2 EXCEPT !.jt_id = c2.found], args, obj)
        ELSE IF args.dry_run THEN c2
        ELSE Then(create_jt(c2, obj.name), LAMBDA c3 : migrate_attachments(c3, args, obj))))

(***************************************************************************)
(* Generated job templates, targets and run arguments                      *)
(***************************************************************************)
NoNotifs == [started |-> <<>>, success |-> <<>>, error |-> <<>>]
N_MAIL == [name |-> "mail", notification_type |-> TXT_EMAIL_UC]
N_CHAT == [name |-> "chat", notification_type |-> TXT_SLACK]
S_NIGHTLY == ("name" :> "nightly") @@ ("rrule" :> R_DAILY)
S_BLANK == ("name" :> "blank") @@ ("rrule" :> R_BLANK)

JtPool ==
    { \* a plain template whose references the target holds
      [id |-> 1, name |-> "web", project |-> "P", inventory |-> "I", creds |-> <<>>,
       survey |-> FALSE, notifs |-> NoNotifs, schedules |-> <<>>],
      \* a template whose inventory the target organization lacks
      [id |-> 2, name |-> "db", project |-> "P", inventory |-> "Prod Inv", creds |-> <<>>,
       survey |-> FALSE, notifs |-> NoNotifs, schedules |-> <<>>],
      \* a template with every kind of sub-resource
      [id |-> 3, name |-> "app", project |-> "P", inventory |-> "I",
       creds |-> <<[name |-> "vault", type |-> TYPE_VAULT],
                   [name |-> "ssh", type |-> TYPE_MACHINE]>>,
       survey |-> TRUE,
       notifs |-> [started |-> <<N_MAIL>>, success |-> <<>>, error |-> <<N_MAIL, N_CHAT>>],
       schedules |-> <<S_NIGHTLY, S_BLANK>>],
      \* a template one of whose credentials the target lacks
      [id |-> 4, name |-> "batch", project |-> "", inventory |-> "",
       creds |-> <<[name |-> "ghost", type |-> TYPE_VAULT]>>,
       survey |-> FALSE, notifs |-> NoNotifs, schedules |-> <<>>],
      \* a template the target already holds
      [id |-> 5, name |-> "old", project |-> "P", inventory |-> "I",
       creds |-> <<[name |-> "ssh", type |-> NoneText]>>,
       survey |-> TRUE,
       notifs |-> [started |-> <<>>, success |-> <<N_MAIL>>, error |-> <<>>],
       schedules |-> <<S_NIGHTLY>>] }

AllLabels == {"full-id", "full-url", "bare-id", "bare-url"}

BaseTarget ==
    [projects |-> ("P" :> 11),
     inventories |-> ("I" :> 5),
     ees |-> (5 :> <<>>) @@ (6 :> <<9>>),
     cred_orgs |-> (21 :> <<ORG_ID>>) @@ (22 :> <<ORG_ID>>) @@ (31 :> <<>>),
     credentials |-> <<[id |-> 21, name |-> "vault", type |-> TYPE_VAULT, tid |-> 3],
                       [id |-> 22, name |-> "ssh", type |-> TYPE_MACHINE, tid |-> 1]>>,
     credential_types |-> (TYPE_VAULT :> 3) @@ (TYPE_MACHINE :> 1),
     job_templates |-> ("old" :> 90),
     notification_templates |-> EmptyMap,
     schedules |-> <<>>,
     reject |-> {},
     accepts |-> AllLabels,
     down |-> {}]

TargetPool ==
    { BaseTarget,
      [BaseTarget EXCEPT !.reject = {[what |-> "job_templates", name |-> "web"]}],
      [BaseTarget EXCEPT !.accepts = {"bare-url"}],
      [BaseTarget EXCEPT !.accepts = {}],
      [BaseTarget EXCEPT !.down = {"inventories"}] }

\* the arguments of a run; dry_run is chosen when the run starts
JArgsPool ==
    { [mode |-> md, force_ee_id |-> ee, force_machine_cred_id |-> mc,
       with_notifications |-> w, with_schedules |-> w,
       include |-> NoRegex, exclude |-> ex, dry_run |-> FALSE] :
         md \in {"all", "single"}, ee \in {<<>>, <<5>>, <<6>>}, mc \in {<<>>, <<31>>},
         w \in BOOLEAN, ex \in {NoRegex, Regex({"web"})} }

\* filt: the name filter of the bulk run
filt(name, inc, exc) ==
    IF inc.on /\ name \notin inc.m THEN FALSE
    ELSE IF exc.on /\ name \in exc.m THEN FALSE
    ELSE TRUE

JZero == [migrated |-> 0, filtered |-> 0, fail |-> 0]

JobInit ==
    /\ j_pc = "start"
    /\ \E a \in JArgsPool, dry \in BOOLEAN : j_cfg = [a EXCEPT !.dry_run = dry]
    /\ j_src \in SeqsUpTo(JtPool, MaxJts)
    /\ j_tgt \in TargetPool
    /\ j_tgt0 = j_tgt
    /\ j_idx = 0
    /\ j_cnt = JZero
    /\ j_log = <<>>
    /\ j_exit = -1
    /\ j_hist = <<>>

\* what the run did with one entity: its outcome and the calls it made
Handled(obj, outcome, c) ==
    [name |-> obj.name, outcome |-> outcome, error |-> c.error,
     calls |-> c.calls, gets |-> c.gets]

\* line 712: ping raises; __main__ exits with 1
JPingFail ==
    /\ j_pc = "start"
    /\ j_pc' = "crashed"
    /\ j_exit' = 1
    /\ UNCHANGED <<j_cfg, j_src, j_tgt, j_tgt0, j_idx, j_cnt, j_log, j_hist, outside_j>>

\* lines 729-732: a single template; an exception reaches __main__ (exit 1)
JSingle ==
    /\ j_pc = "start"
    /\ j_cfg.mode = "single"
    /\ IF j_src = <<>>
       THEN /\ j_pc' = "crashed"
            /\ j_exit' = 1
            /\ UNCHANGED <<j_tgt, j_idx, j_log>>
       ELSE \E c \in {migrate_one(j_tgt, j_cfg, j_src[1])} :
            /\ j_idx' = 1
            /\ j_tgt' = c.tgt
            /\ j_log' = Append(j_log, Handled(j_src[1], IF c.raised THEN "FAIL" ELSE "MIGRATED", c))
            /\ j_pc' = IF c.raised THEN "crashed" ELSE "done"
            /\ j_exit' = IF c.raised THEN 1 ELSE 0
    /\ UNCHANGED <<j_cfg, j_src, j_tgt0, j_cnt, j_hist, outside_j>>

\* lines 734-737: the bulk run starts
JBegin ==
    /\ j_pc = "start"
    /\ j_cfg.mode = "all"
    /\ j_pc' = "loop"
    /\ UNCHANGED <<j_cfg, j_src, j_tgt, j_tgt0, j_idx, j_cnt, j_log, j_exit, j_hist, outside_j>>

\* lines 740-741: the template fails the name filter
JStepFiltered(obj) ==
    /\ ~filt(obj.name, j_cfg.include, j_cfg.exclude)
    /\ j_cnt' = Inc(j_cnt, "filtered")
    /\ j_log' = Append(j_log, Handled(obj, "FILTERED", Ctx(j_tgt)))
    /\ UNCHANGED j_tgt

\* lines 742-745: migrate_one in its try
JStepMigrate(obj) ==
    /\ filt(obj.name, j_cfg.include, j_cfg.exclude)
    /\ \E c \in {migrate_one(j_tgt, j_cfg, obj)} :
          /\ j_tgt' = c.tgt
          /\ j_cnt' = Inc(j_cnt, IF c.raised THEN "fail" ELSE "migrated")
          /\ j_log' = Append(j_log, Handled(obj, IF c.raised THEN "FAIL" ELSE "MIGRATED", c))

\* lines 738-745: one iteration of the loop over the source listing
JStep ==
    /\ j_pc = "loop"
    /\ j_idx < Len(j_src)
    /\ j_idx' = j_idx + 1
    /\ \E obj \in {j_src[j_idx + 1]} :
          \/ JStepFiltered(obj)
          \/ JStepMigrate(obj)
    /\ UNCHANGED <<j_pc, j_cfg, j_src, j_tgt0, j_exit, j_hist, outside_j>>

\* a run that reports success whatever it counted
JFinishClean ==
    /\ j_pc = "loop"
    /\ j_idx = Len(j_src)
    /\ j_pc' = "done"
    /\ j_exit' = 0
    /\ UNCHANGED <<j_cfg, j_src, j_tgt, j_tgt0, j_idx, j_cnt, j_log, j_hist, outside_j>>

\* lines 747-751: the summary and the return value
JFinish ==
    /\ j_pc = "loop"
    /\ j_idx = Len(j_src)
    /\ j_pc' = "done"
    /\ j_exit' = IF j_cnt.fail = 0 THEN 0 ELSE 2
    /\ UNCHANGED <<j_cfg, j_src, j_tgt, j_tgt0, j_idx, j_cnt, j_log, j_hist, outside_j>>

\* the script is run again with the same arguments (but for --dry-run) on
\* the same source, against the target as the run before left it
JRerun ==
    /\ j_pc = "done"
    /\ Len(j_hist) + 1 < MaxRuns
    /\ j_hist' = Append(j_hist, [cfg |-> j_cfg, tgt0 |-> j_tgt0, log |-> j_log, exit |-> j_exit])
    /\ \E dry \in BOOLEAN : j_cfg' = [j_cfg EXCEPT !.dry_run = dry]
    /\ j_tgt0' = j_tgt
    /\ j_pc' = "start"
    /\ j_idx' = 0
    /\ j_cnt' = JZero
    /\ j_log' = <<>>
    /\ j_exit' = -1
    /\ UNCHANGED <<j_src, j_tgt, outside_j>>

JobNext == JPingFail \/ JSingle \/ JBegin \/ JStep \/ JFinish \/ JRerun

JIdle ==
    /\ j_pc = "idle"
    /\ j_cfg = [mode |-> "all", force_ee_id |-> <<>>, force_machine_cred_id |-> <<>>,
                with_notifications |-> FALSE, with_schedules |-> FALSE,
                include |-> NoRegex, exclude |-> NoRegex, dry_run |-> FALSE]
    /\ j_src = <<>>
    /\ j_tgt = BaseTarget
    /\ j_tgt0 = BaseTarget
    /\ j_idx = 0
    /\ j_cnt = JZero
    /\ j_log = <<>>
    /\ j_exit = -1
    /\ j_hist = <<>>

(***************************************************************************)
(* migrate_projects.py: the legacy runs, run_single and run_bulk_atst.     *)
(* The target is [projects, reject, down]: the names of the projects its   *)
(* organization holds, the names whose create it rejects, and the names    *)
(* whose lookup fails (an error status or a transport error).              *)
(***************************************************************************)
BTargetPool ==
    [projects : {{}, {"a"}}, reject : {{}, {"b"}}, down : {{}, {"a2"}}]

BArgsPool ==
    { [mode |-> md, dry_run |-> FALSE, limit |-> lim, include |-> f[1], exclude |-> f[2]] :
         md \in {"all", "single"}, lim \in 0..MaxLimit, f \in FilterPool }

BZero == [migrated |-> 0, skipped_existing |-> 0, skipped_filtered |-> 0, failures |-> 0,
          processed |-> 0]

BulkInit ==
    /\ b_pc = "start"
    /\ \E a \in BArgsPool, dry \in BOOLEAN : b_cfg = [a EXCEPT !.dry_run = dry]
    /\ b_src \in SeqsUpTo(AtstPool, MaxAtst)
    /\ b_tgt \in BTargetPool
    /\ b_idx = 0
    /\ b_cnt = BZero
    /\ b_log = <<>>
    /\ b_posts = <<>>
    /\ b_exit = -1
    /\ b_hist = <<>>

\* a lookup that reports every project as absent
find_nothing(tgt, name) ==
    IF name \in tgt.down THEN "failed" ELSE "absent"

\* find_aap_project: "failed" when get_json raises, else whether the
\* organization holds a project of that name
find_aap_project(tgt, name) ==
    IF name \in tgt.down THEN "failed"
    ELSE IF name \in tgt.projects THEN "found"
    ELSE "absent"

\* create_aap_project: the answer of the target to the POST
create_aap_project(tgt, payload) ==
    IF payload.name \in tgt.reject THEN "error" ELSE "created"

\* what the run did with one project: the outcome, the answer of the lookup
\* ("none" when no lookup was made) and whether a create call was issued
BHandled(name, outcome, lookup, posted) ==
    [name |-> name, outcome |-> outcome, lookup |-> lookup, posted |-> posted]

\* lines 252-253 and 273-274: aap_ping or assert_org_exists raises
BPreflightFail ==
    /\ b_pc = "start"
    /\ b_pc' = "crashed"
    /\ b_exit' = 1
    /\ UNCHANGED <<b_cfg, b_src, b_tgt, b_idx, b_cnt, b_log, b_posts, b_hist, outside_b>>

\* lines 258-269 and 290-301: lookup, then create unless it exists or the
\* run is dry; the outcome, and the target and the calls afterwards
MigrateProject(awx_proj) ==
    \E found \in {find_aap_project(b_tgt, awx_proj.name)} :
    \E payload \in {clean_project_for_aap(awx_proj, ORG_ID)} :
       \/ /\ found = "failed"
          /\ b_log' = Append(b_log, BHandled(awx_proj.name, "ERROR", found, FALSE))
          /\ UNCHANGED <<b_tgt, b_posts>>
       \/ /\ found = "found"
          /\ b_log' = Append(b_log, BHandled(awx_proj.name, "EXISTS", found, FALSE))
          /\ UNCHANGED <<b_tgt, b_posts>>
       \/ /\ found = "absent"
          /\ b_cfg.dry_run
          /\ b_log' = Append(b_log, BHandled(awx_proj.name, "DRYRUN", found, FALSE))
          /\ UNCHANGED <<b_tgt, b_posts>>
       \/ /\ found = "absent"
          /\ ~b_cfg.dry_run
          /\ \E answer \in {create_aap_project(b_tgt, payload)} :
                /\ b_posts' = Append(b_posts, [payload |-> payload, answer |-> answer])
                /\ b_tgt' = IF answer = "created"
                            THEN [b_tgt EXCEPT !.projects = @ \cup {payload.name}]
                            ELSE b_tgt
                /\ b_log' = Append(b_log,
                      BHandled(awx_proj.name, IF answer = "created" THEN "CREATED" ELSE "ERROR",
                               found, TRUE))

\* run_single, lines 255-269: any exception reaches __main__ (exit 1)
BSingle ==
    /\ b_pc = "start"
    /\ b_cfg.mode = "single"
    /\ IF b_src = <<>>
       THEN /\ b_pc' = "crashed"
            /\ b_exit' = 1
            /\ UNCHANGED <<b_tgt, b_idx, b_log, b_posts>>
       ELSE /\ MigrateProject(b_src[1])
            /\ b_idx' = 1
            /\ b_pc' = IF b_log'[1].outcome = "ERROR" THEN "crashed" ELSE "done"
            /\ b_exit' = IF b_log'[1].outcome = "ERROR" THEN 1 ELSE 0
    /\ UNCHANGED <<b_cfg, b_src, b_cnt, b_hist, outside_b>>

\* lines 276-279: the bulk run starts
BBegin ==
    /\ b_pc = "start"
    /\ b_cfg.mode = "all"
    /\ b_pc' = "loop"
    /\ UNCHANGED <<b_cfg, b_src, b_tgt, b_idx, b_cnt, b_log, b_posts, b_exit, b_hist, outside_b>>

\* the counter an outcome adds to
BCounter(outcome) ==
    CASE outcome = "EXISTS" -> "skipped_existing"
      [] outcome = "ERROR" -> "failures"
      [] outcome \in {"CREATED", "DRYRUN"} -> "migrated"

\* lines 280-307: one iteration of the loop of run_bulk_atst
BStep ==
    /\ b_pc = "loop"
    /\ b_idx < Len(b_src)
    /\ b_idx' = b_idx + 1
    /\ \E awx_proj \in {b_src[b_idx + 1]} :
          \/ /\ ~should_migrate(awx_proj.name, b_cfg.include, b_cfg.exclude)
             /\ b_cnt' = Inc(Inc(b_cnt, "processed"), "skipped_filtered")
             /\ b_log' = Append(b_log, BHandled(awx_proj.name, "FILTERED", "none", FALSE))
             /\ UNCHANGED <<b_tgt, b_posts>>
          \/ /\ should_migrate(awx_proj.name, b_cfg.include, b_cfg.exclude)
             /\ MigrateProject(awx_proj)
             /\ b_cnt' = Inc(Inc(b_cnt, "processed"), BCounter(b_log'[b_idx + 1].outcome))
    /\ b_pc' = IF b_cfg.limit # 0 /\ b_cnt.processed + 1 >= b_cfg.limit THEN "break" ELSE "loop"
    /\ UNCHANGED <<b_cfg, b_src, b_exit, b_hist, outside_b>>

\* lines 309-314: the summary and the return value
BFinish ==
    /\ \/ b_pc = "break"
       \/ (b_pc = "loop" /\ b_idx = Len(b_src))
    /\ b_pc' = "done"
    /\ b_exit' = IF b_cnt.failures = 0 THEN 0 ELSE 2
    /\ UNCHANGED <<b_cfg, b_src, b_tgt, b_idx, b_cnt, b_log, b_posts, b_hist, outside_b>>

\* the script is run again with the same arguments (but for --dry-run) on
\* the same source, against the target as the run before left it
BRerun ==
    /\ b_pc = "done"
    /\ Len(b_hist) + 1 < MaxRuns
    /\ b_hist' = Append(b_hist, [cfg |-> b_cfg, log |-> b_log, posts |-> b_posts,
                                 exit |-> b_exit])
    /\ \E dry \in BOOLEAN : b_cfg' = [b_cfg EXCEPT !.dry_run = dry]
    /\ b_pc' = "start"
    /\ b_idx' = 0
    /\ b_cnt' = BZero
    /\ b_log' = <<>>
    /\ b_posts' = <<>>
    /\ b_exit' = -1
    /\ UNCHANGED <<b_src, b_tgt, outside_b>>

BulkNext == BPreflightFail \/ BSingle \/ BBegin \/ BStep \/ BFinish \/ BRerun

BIdle ==
    /\ b_pc = "idle"
    /\ b_cfg = [mode |-> "all", dry_run |-> FALSE, limit |-> 0, include |-> NoRegex,
                exclude |-> NoRegex]
    /\ b_src = <<>>
    /\ b_tgt = [projects |-> {}, reject |-> {}, down |-> {}]
    /\ b_idx = 0
    /\ b_cnt = BZero
    /\ b_log = <<>>
    /\ b_posts = <<>>
    /\ b_exit = -1
    /\ b_hist = <<>>

(***************************************************************************)
(* Reference resolution on its own: ensure_refs and aap_find_credential    *)
(* applied to generated names, in targets where a name is held by no, one  *)
(* or several credentials.                                                 *)
(***************************************************************************)
TYPE_NETWORK == <<"N","e","t">>

D_MACHINE == [id |-> 41, name |-> "dup", type |-> TYPE_MACHINE, tid |-> 1]
D_VAULT == [id |-> 42, name |-> "dup", type |-> TYPE_VAULT, tid |-> 3]
\* a credential whose summary fields carry no type name
D_BARE == [id |-> 43, name |-> "dup", type |-> NoneText, tid |-> 1]
D_OTHER == [id |-> 44, name |-> "solo", type |-> TYPE_VAULT, tid |-> 3]

CredListPool ==
    { <<>>, <<D_OTHER>>, <<D_MACHINE>>, <<D_OTHER, D_VAULT>>,
      <<D_MACHINE, D_VAULT>>, <<D_VAULT, D_MACHINE>>, <<D_BARE, D_MACHINE>>,
      <<D_MACHINE, D_OTHER, D_BARE>>, <<D_BARE, D_VAULT, D_MACHINE>> }

CredTypePool ==
    { EmptyMap,
      (TYPE_VAULT :> 3) @@ (TYPE_MACHINE :> 1),
      (TYPE_VAULT :> 3) @@ (TYPE_MACHINE :> 1) @@ (TYPE_NETWORK :> 4) }

\* the credentials of a source template: two of one target credential, two
\* Machine credentials, one the target lacks after one it holds
CredsPool ==
    { <<>>,
      <<[name |-> "dup", type |-> TYPE_VAULT], [name |-> "solo", type |-> TYPE_VAULT]>>,
      <<[name |-> "solo", type |-> NoneText], [name |-> "dup", type |-> TYPE_VAULT],
        [name |-> "solo", type |-> TYPE_VAULT]>>,
      <<[name |-> "m1", type |-> TYPE_MACHINE], [name |-> "solo", type |-> TYPE_VAULT],
        [name |-> "m2", type |-> TYPE_MACHINE]>>,
      <<[name |-> "solo", type |-> TYPE_VAULT], [name |-> "ghost", type |-> TYPE_VAULT]>>,
      <<[name |-> "", type |-> TYPE_VAULT], [name |-> "solo", type |-> TYPE_VAULT]>> }
NoJob == [creds |-> <<>>, force_machine_cred_id |-> <<>>, dry_run |-> FALSE]

RTargetPool ==
    { [BaseTarget EXCEPT !.credentials = cl, !.credential_types = ct, !.down = dn] :
        cl \in CredListPool, ct \in CredTypePool, dn \in {{}, {"projects"}} }

RefsInit ==
    /\ r_pc = "init"
    /\ r_tgt \in RTargetPool
    /\ r_in \in [proj_name : {"", "P", "Q"}, inv_name : {"", "I", "J"},
                 forced_ee_id : {<<>>, <<5>>},
                 name : {"dup", "ghost"},
                 awx_ctype_name : {NoneText, TYPE_VAULT, TYPE_NETWORK}]
    /\ r_job = NoJob
    /\ r_out = Ctx(r_tgt)

\* migrate_one, lines 597-600: the references of a template are resolved
RRefs ==
    /\ r_pc = "init"
    /\ r_out' = ensure_refs(Ctx(r_tgt), ORG_ID, r_in.proj_name, r_in.inv_name, r_in.forced_ee_id)
    /\ r_pc' = "refs"
    /\ UNCHANGED <<r_tgt, r_in, r_job, outside_r>>

\* resolve_cred_ids, line 550: a credential is looked up by name and type
RCred ==
    /\ r_pc = "init"
    /\ r_out' = aap_find_credential(Ctx(r_tgt), r_in.name, r_in.awx_ctype_name)
    /\ r_pc' = "cred"
    /\ UNCHANGED <<r_tgt, r_in, r_job, outside_r>>

\* migrate_one, lines 646-656: the credentials of a template are resolved
\* and attached
RCreds ==
    /\ r_pc = "init"
    /\ \E creds \in CredsPool, fm \in {<<>>, <<31>>}, dry \in BOOLEAN :
          /\ r_job' = [creds |-> creds, force_machine_cred_id |-> fm, dry_run |-> dry]
          /\ r_out' = migrate_creds(Ctx(r_tgt), r_job', [name |-> "jt", creds |-> creds])
    /\ r_pc' = "creds"
    /\ UNCHANGED <<r_tgt, r_in, outside_r>>

RefsNext == RRefs \/ RCred \/ RCreds

RIdle ==
    /\ r_pc = "idle"
    /\ r_tgt = BaseTarget
    /\ r_in = [proj_name |-> "", inv_name |-> "", forced_ee_id |-> <<>>, name |-> "",
               awx_ctype_name |-> NoneText]
    /\ r_job = NoJob
    /\ r_out = Ctx(BaseTarget)

(***************************************************************************)
(* migrate_projects.py: the offline index.  export_atst_index writes the   *)
(* listing to a JSON file whose "projects" object is keyed by the text     *)
(* "<url>@@<branch>"; load_atst_index_from_file reads it back into a map   *)
(* keyed by the pair (url, branch).  json.dump and json.load keep the text *)
(* of the keys and the name and id of the entries as they are.             *)
(***************************************************************************)
URL_AT == <<"h","t","t","p","s",":","/","/","h",".","x","/","r","@","@","v">>
BR_AT == <<"m","@","@","n">>
SEP_AT == <<"@","@">>

IndexPool ==
    AtstPool \cup
    { [id |-> 4, name |-> "at", scm_type |-> GitType, scm_url |-> URL_AT,
       scm_branch |-> BR_M, organization |-> 1],
      [id |-> 5, name |-> "br", scm_type |-> GitType, scm_url |-> URL_Q,
       scm_branch |-> BR_AT, organization |-> 1],
      [id |-> 6, name |-> "bad", scm_type |-> GitType, scm_url |-> URL_BADPORT,
       scm_branch |-> <<>>, organization |-> 1] }

\* str.find(p) of a text p: the first position where p occurs, 0 if none
FindText(t, p) ==
    Bind({i \in 1..(Len(t) - Len(p) + 1) : SubSeq(t, i, i + Len(p) - 1) = p}, LAMBDA I :
        IF I = {} THEN 0 ELSE SetMin(I))

\* lines 214-221: key = f"{url}@@{branch}" and the entry written under it
ExportKey(k) == k.url \o SEP_AT \o k.branch
ExportEntry(obj) ==
    [name |-> obj.name, id |-> obj.id, scm_url |-> obj.scm_url, scm_branch |-> obj.scm_branch]

\* export_atst_index: [raised, projects], mapping[key] = {...} in listing order
RECURSIVE export_atst_index(_)
export_atst_index(listing) ==
    IF listing = <<>> THEN [raised |-> FALSE, projects |-> EmptyMap]
    ELSE Bind(export_atst_index(Upto(listing, Len(listing) - 1)), LAMBDA head :
         Bind(project_key(listing[Len(listing)]), LAMBDA k :
            IF head.raised \/ k.raised
            THEN [raised |-> TRUE, projects |-> EmptyMap]
            ELSE [raised |-> FALSE,
                  projects |-> SetItem(head.projects, ExportKey(k),
                                       ExportEntry(listing[Len(listing)]))]))

\* lines 233-237: key.split("@@", 1), or the whole key and an empty branch
SplitKey(key) ==
    Bind(FindText(key, SEP_AT), LAMBDA i :
        IF i = 0 THEN [url |-> key, branch |-> <<>>]
        ELSE [url |-> Upto(key, i - 1), branch |-> From(key, i + 2)])

\* load_atst_index_from_file: the map keyed by (url, branch); a key is its
\* two parts joined by the first "@@", so two keys never split alike
load_atst_index_from_file(projects) ==
    [k \in {SplitKey(key) : key \in DOMAIN projects} |->
        projects[CHOOSE key \in DOMAIN projects : SplitKey(key) = k]]

IndexInit ==
    /\ x_pc = "init"
    /\ x_listing \in SeqsUpTo(IndexPool, MaxAtst)
    /\ x_live = [raised |-> FALSE, map |-> EmptyMap]
    /\ x_file = [raised |-> FALSE, projects |-> EmptyMap]
    /\ x_offline = EmptyMap

\* load_projects_map_live over the listing
XLive ==
    /\ x_pc = "init"
    /\ x_live' = load_projects_map_live(x_listing)
    /\ x_pc' = "live"
    /\ UNCHANGED <<x_listing, x_file, x_offline, outside_x>>

\* export_atst_index over the same listing; project_key raising ends it
XExport ==
    /\ x_pc = "live"
    /\ x_file' = export_atst_index(x_listing)
    /\ x_pc' = IF x_file'.raised THEN "crashed" ELSE "exported"
    /\ UNCHANGED <<x_listing, x_live, x_offline, outside_x>>

\* load_atst_index_from_file of the exported file
XLoad ==
    /\ x_pc = "exported"
    /\ x_offline' = load_atst_index_from_file(x_file.projects)
    /\ x_pc' = "loaded"
    /\ UNCHANGED <<x_listing, x_live, x_file, outside_x>>

IndexNext == XLive \/ XExport \/ XLoad

XIdle ==
    /\ x_pc = "idle"
    /\ x_listing = <<>>
    /\ x_live = [raised |-> FALSE, map |-> EmptyMap]
    /\ x_file = [raised |-> FALSE, projects |-> EmptyMap]
    /\ x_offline = EmptyMap

(***************************************************************************)
(* Two runs at once.  Each script is one sequential process that takes no  *)
(* lock and holds no state outside the target, so two runs started over    *)
(* the same source against the same target interleave at their HTTP calls: *)
(* the lookup of an entity and its create are two requests, and the        *)
(* requests of the other run may be served between them.  A step of the    *)
(* model is the lookup of one run (with the branch taken on its answer) or *)
(* what that run does next for the entity, against the target as it is     *)
(* then.                                                                   *)
(***************************************************************************)
ConcRuns == {1, 2}
\* the arguments of both runs of the job-template script
ConcArgs ==
    [mode |-> "all", force_ee_id |-> <<5>>, force_machine_cred_id |-> <<>>,
     with_notifications |-> FALSE, with_schedules |-> FALSE,
     include |-> NoRegex, exclude |-> NoRegex, dry_run |-> FALSE]

ConcInit ==
    /\ c_pc = [r \in ConcRuns |-> "lookup"]
    /\ c_idx = [r \in ConcRuns |-> 0]
    /\ c_posts = <<>>
    /\ \/ /\ c_kind = "projects"
          /\ c_src \in SeqsUpTo(AtstPool, MaxAtst)
          /\ c_tgt \in BTargetPool
          /\ c_seen = [r \in ConcRuns |-> "none"]
       \/ /\ c_kind = "job_templates"
          /\ c_src \in SeqsUpTo(JtPool, MaxJts)
          /\ c_tgt \in TargetPool
          /\ c_seen = [r \in ConcRuns |-> Ctx(c_tgt)]

\* run_bulk_atst, lines 290-293: the lookup of the next project and the
\* branch on its answer (an error status or "exists" ends the iteration)
CLookupProject ==
    \E r \in ConcRuns :
        /\ c_kind = "projects"
        /\ c_pc[r] = "lookup"
        /\ c_idx[r] < Len(c_src)
        /\ \E found \in {find_aap_project(c_tgt, c_src[c_idx[r] + 1].name)} :
              /\ c_seen' = [c_seen EXCEPT ![r] = found]
              /\ c_pc' = [c_pc EXCEPT ![r] = IF found = "absent" THEN "create" ELSE "lookup"]
              /\ c_idx' = [c_idx EXCEPT ![r] = IF found = "absent" THEN @ ELSE @ + 1]
        /\ UNCHANGED <<c_kind, c_src, c_tgt, c_posts, outside_c>>

\* run_bulk_atst, lines 295-301: the create of the project the lookup of
\* this run did not find
CCreateProject ==
    \E r \in ConcRuns :
        /\ c_kind = "projects"
        /\ c_pc[r] = "create"
        /\ \E payload \in {clean_project_for_aap(c_src[c_idx[r] + 1], ORG_ID)} :
           \E answer \in {create_aap_project(c_tgt, payload)} :
              /\ c_posts' = Append(c_posts, [run |-> r, name |-> payload.name, answer |-> answer])
              /\ c_tgt' = IF answer = "created"
                          THEN [c_tgt EXCEPT !.projects = @ \cup {payload.name}]
                          ELSE c_tgt
        /\ c_pc' = [c_pc EXCEPT ![r] = "lookup"]
        /\ c_idx' = [c_idx EXCEPT ![r] = @ + 1]
        /\ UNCHANGED <<c_kind, c_src, c_seen, outside_c>>

\* migrate_one, lines 597-614: the references and the lookup of the next
\* job template; an exception ends the iteration
CLookupJt ==
    \E r \in ConcRuns :
        /\ c_kind = "job_templates"
        /\ c_pc[r] = "lookup"
        /\ c_idx[r] < Len(c_src)
        /\ \E obj \in {c_src[c_idx[r] + 1]} :
           \E c \in {Then(ensure_refs(Ctx(c_tgt), ORG_ID, obj.project, obj.inventory,
                                      ConcArgs.force_ee_id),
                          LAMBDA c1 : find_aap_jt(c1, obj.name))} :
              /\ c_seen' = [c_seen EXCEPT ![r] = c]
              /\ c_pc' = [c_pc EXCEPT ![r] = IF c.raised THEN "lookup" ELSE "rest"]
              /\ c_idx' = [c_idx EXCEPT ![r] = IF c.raised THEN @ + 1 ELSE @]
        /\ UNCHANGED <<c_kind, c_src, c_tgt, c_posts, outside_c>>

\* the create calls a context issued after its first n calls
CreateCallsAfter(c, n, r, tgt) ==
    Bind(SelectSeq(From(c.calls, n + 1), LAMBDA x : x.m = "POST" /\ x.what = "job_templates"),
         LAMBDA cs : [i \in 1..Len(cs) |->
                        [run |-> r, name |-> cs[i].name,
                         answer |-> IF Rejected(tgt, "job_templates", cs[i].name, "")
                                    THEN "error" ELSE "created"]])

\* migrate_one, lines 616-706: what this run does with the job template on
\* the answer its lookup got, against the target as it is now
CRestJt ==
    \E r \in ConcRuns :
        /\ c_kind = "job_templates"
        /\ c_pc[r] = "rest"
        /\ \E obj \in {c_src[c_idx[r] + 1]} :
           \E c \in {[c_seen[r] EXCEPT !.tgt = c_tgt]} :
           \E out \in {IF c.found # <<>>
                       THEN migrate_attachments([c EXCEPT !.jt_id = c.found], ConcArgs, obj)
                       ELSE Then(create_jt(c, obj.name), LAMBDA c3 :
                               migrate_attachments(c3, ConcArgs, obj))} :
              /\ c_tgt' = out.tgt
              /\ c_posts' = c_posts \o CreateCallsAfter(out, Len(c.calls), r, c_tgt)
              /\ c_seen' = [c_seen EXCEPT ![r] = out]
        /\ c_pc' = [c_pc EXCEPT ![r] = "lookup"]
        /\ c_idx' = [c_idx EXCEPT ![r] = @ + 1]
        /\ UNCHANGED <<c_kind, c_src, outside_c>>

ConcNext == CLookupProject \/ CCreateProject \/ CLookupJt \/ CRestJt

CIdle ==
    /\ c_pc = [r \in ConcRuns |-> "idle"]
    /\ c_kind = "none"
    /\ c_src = <<>>
    /\ c_tgt = [projects |-> {}, reject |-> {}, down |-> {}]
    /\ c_idx = [r \in ConcRuns |-> 0]
    /\ c_seen = [r \in ConcRuns |-> "none"]
    /\ c_posts = <<>>

(***************************************************************************)
(* Specifications                                                          *)
(***************************************************************************)
\* the Key Normalizer applied to generated project objects
InitKey ==
    /\ KeyInit
    /\ PIdle
    /\ SIdle
    /\ MIdle
    /\ JIdle
    /\ BIdle
    /\ RIdle
    /\ XIdle
    /\ CIdle
SpecKey == InitKey /\ [][KeyNext]_vars

\* one run of PROD compare mode over generated listings
InitProd ==
    /\ KeyIdle
    /\ ProdInit
    /\ SIdle
    /\ MIdle
    /\ JIdle
    /\ BIdle
    /\ RIdle
    /\ XIdle
    /\ CIdle
SpecProd == InitProd /\ [][ProdNext]_vars

\* the schedule step of migrate_one over generated schedules
InitSched ==
    /\ KeyIdle
    /\ PIdle
    /\ SchedInit
    /\ MIdle
    /\ JIdle
    /\ BIdle
    /\ RIdle
    /\ XIdle
    /\ CIdle
SpecSched == InitSched /\ [][SchedNext]_vars

\* merge_email_config over generated configurations and secrets
InitMerge ==
    /\ KeyIdle
    /\ PIdle
    /\ SIdle
    /\ MergeInit
    /\ JIdle
    /\ BIdle
    /\ RIdle
    /\ XIdle
    /\ CIdle
SpecMerge == InitMerge /\ [][MergeNext]_vars

\* runs of the job-template script over generated listings and targets
InitJob ==
    /\ KeyIdle
    /\ PIdle
    /\ SIdle
    /\ MIdle
    /\ JobInit
    /\ BIdle
    /\ RIdle
    /\ XIdle
    /\ CIdle
SpecJob == InitJob /\ [][JobNext]_vars

\* a run of one of the three bulk programs: PROD compare, the job-template
\* script, or a legacy project mode
InitRuns ==
    /\ KeyIdle
    /\ SIdle
    /\ MIdle
    /\ RIdle
    /\ XIdle
    /\ CIdle
    /\ \/ (ProdInit /\ JIdle /\ BIdle)
       \/ (PIdle /\ JobInit /\ BIdle)
       \/ (PIdle /\ JIdle /\ BulkInit)
RunsNext == ProdNext \/ JobNext \/ BulkNext
SpecRuns == InitRuns /\ [][RunsNext]_vars

\* ensure_refs and aap_find_credential over generated names and targets
InitRefs ==
    /\ KeyIdle
    /\ PIdle
    /\ SIdle
    /\ MIdle
    /\ JIdle
    /\ BIdle
    /\ RefsInit
    /\ XIdle
    /\ CIdle
SpecRefs == InitRefs /\ [][RefsNext]_vars

\* the offline index against the live index
InitIndex ==
    /\ KeyIdle
    /\ PIdle
    /\ SIdle
    /\ MIdle
    /\ JIdle
    /\ BIdle
    /\ RIdle
    /\ IndexInit
    /\ CIdle
SpecIndex == InitIndex /\ [][IndexNext]_vars

\* two runs of one script at once
InitConc ==
    /\ KeyIdle
    /\ PIdle
    /\ SIdle
    /\ MIdle
    /\ JIdle
    /\ BIdle
    /\ RIdle
    /\ XIdle
    /\ ConcInit
SpecConc == InitConc /\ [][ConcNext]_vars

(***************************************************************************)
(* Claims about the Key Normalizer (specification SpecKey)                 *)
(***************************************************************************)
KeyDone == k_pc \in {"once", "twice"}

\* C3: normalization is idempotent: normalizing the normalized URL of a raw
\* URL returns that same normalized URL (and does not raise).
C3_NormalizeIdempotent ==
    k_pc = "twice" => (~k_r2.raised /\ k_r2.val = k_ra.url)

\* C4: two URLs of one repository that differ only by one trailing ".git",
\* by trailing slashes and by the letter case of scheme and host get equal
\* NaturalKeys from project_key when their branches are equal.
C4_SameRepositorySameKey ==
    (/\ KeyDone
     /\ ~k_ra.raised /\ ~k_rb.raised
     /\ k_a.tail.git <= 1 /\ k_b.tail.git <= 1
     /\ k_a.scm_branch = k_b.scm_branch)
    => (k_ra.url = k_rb.url /\ k_ra.branch = k_rb.branch)

\* C5: key normalization is total: project_key returns a key for every raw
\* key and never raises.
C5_NormalizeTotal ==
    KeyDone => ~k_ra.raised

(***************************************************************************)
(* Claims about PROD compare mode (specification SpecProd)                 *)
(***************************************************************************)
\* the loop of run_prod_compare is between two candidates, or the run returned
PAtBoundary == p_pc \in {"loop", "break", "done"}

\* the positions of the reference listing whose NaturalKey is that of candidate p
RefPositions(p) ==
    {j \in 1..Len(p_atst) : KeyOf(project_key(p_atst[j])) = KeyOf(project_key(p))}

IsCreateCall(e) == e.outcome \in {"CREATED", "ERROR"}
PrefixedName(e) == PROD_PREFIX \o e.name
PostName(c) == c.payload.name

\* C1: a non-filtered candidate is classified MATCH exactly when its
\* normalized (URL, branch) key is the key of some entity of the reference
\* listing, and the create calls issued are exactly those of the candidates
\* classified CREATED or ERROR, in order: none is issued for a MATCH.
C1_MatchIffKeyInReference ==
    /\ \A i \in 1..Len(p_log) :
          p_log[i].outcome \notin {"FILTERED", "RAISED"}
          => (p_log[i].outcome = "MATCH" <=> RefPositions(p_prod[i]) # {})
    /\ Len(p_posts) = Len(SelectSeq(p_log, IsCreateCall))
    /\ \A n \in 1..Len(p_posts) :
          PostName(p_posts[n]) = PrefixedName(SelectSeq(p_log, IsCreateCall)[n])

\* C1 witness: a finished run matched a candidate whose raw URL is written
\* differently from the reference's, and issued no create call
C1_Witness ==
    /\ p_pc = "done"
    /\ p_posts = <<>>
    /\ \E i \in 1..Len(p_log) :
          /\ p_log[i].outcome = "MATCH"
          /\ \A j \in RefPositions(p_prod[i]) : p_atst[j].scm_url # p_prod[i].scm_url

CountOf(outcomes) == Cardinality({i \in 1..Len(p_log) : p_log[i].outcome \in outcomes})

\* C2: between two candidates and at the end of the run, every handled
\* candidate is counted in exactly one of matches, migrated, failures and
\* filtered, and matches + migrated + failures = processed, the filtered
\* candidates not being counted in processed.
C2_CountersPartitionHandled ==
    PAtBoundary =>
        /\ Len(p_log) = p_idx
        /\ p_cnt.filtered = CountOf({"FILTERED"})
        /\ p_cnt.matches = CountOf({"MATCH"})
        /\ p_cnt.migrated = CountOf({"CREATED", "DRYRUN-CREATE"})
        /\ p_cnt.failures = CountOf({"ERROR"})
        /\ p_cnt.matches + p_cnt.migrated + p_cnt.failures = p_cnt.processed
        /\ p_cnt.processed + p_cnt.filtered = p_idx

\* C2 witness: a finished run that filtered one candidate and processed another
C2_Witness ==
    /\ p_pc = "done"
    /\ p_cnt.filtered >= 1
    /\ p_cnt.processed >= 1
    /\ p_idx = 2

\* C6: the index maps every NaturalKey of the reference listing to the first
\* entity of the listing that has this key, and has no other key.
C6_FirstEntityWins ==
    PAtBoundary =>
        /\ DOMAIN p_map = {KeyOf(project_key(p_atst[j])) : j \in 1..Len(p_atst)}
        /\ \A j \in 1..Len(p_atst) :
              p_map[KeyOf(project_key(p_atst[j]))] = p_atst[SetMin(RefPositions(p_atst[j]))]

\* C6 witness: the listing holds two different entities with one key
C6_Witness ==
    /\ PAtBoundary
    /\ \E i, j \in 1..Len(p_atst) :
          /\ i < j
          /\ p_atst[i] # p_atst[j]
          /\ KeyOf(project_key(p_atst[i])) = KeyOf(project_key(p_atst[j]))
          /\ p_map[KeyOf(project_key(p_atst[j]))] = p_atst[i]

\* C14 (as stated, for PROD compare): an error raised while a candidate is
\* handled is recorded as exactly one failure of that candidate, and it does
\* not end the run: the later candidates of the listing are still handled.
C14_EntityErrorIsOneFailureAndRunGoesOn ==
    /\ p_cnt.failures = CountOf({"ERROR", "RAISED"})
    /\ \A i \in 1..Len(p_log) :
          p_log[i].outcome \in {"ERROR", "RAISED"} => p_pc # "crashed"


(***************************************************************************)
(* Claims about schedule submission and recurrence rules                   *)
(* (specification SpecSched)                                               *)
(***************************************************************************)
Labels == <<"full-id", "full-url", "bare-id", "bare-url">>
\* the events that record an attempt, in the order emitted
AttemptEvents ==
    SelectSeq(s_events,
              LAMBDA e : e.event \in {"schedule.create.ok", "schedule.create.fail"})
FailEvents == SelectSeq(s_events, LAMBDA e : e.event = "schedule.create.fail")
Accepted(n) == s_posts[n].answer = "ok"

\* C7: when the target rejects variants 1..k-1 and accepts variant k, the
\* submission returns success after exactly k POSTs, issued in the order
\* full-id, full-url, bare-id, bare-url, each with the payload of its variant;
\* exactly k attempts are recorded in that order, and the accepted POST is the
\* last one ever issued.
C7_FirstAcceptedVariantEndsTheSequence ==
    /\ Len(s_posts) <= Len(Labels)
    /\ \A n \in 1..Len(s_posts) :
          /\ s_posts[n].label = Labels[n]
          /\ s_posts[n].pl = s_variants[n].pl
          /\ Accepted(n) => (n = Len(s_posts) /\ s_ret = "true" /\ s_pc = "ok")
    /\ Len(AttemptEvents) = Len(s_posts)
    /\ \A n \in 1..Len(AttemptEvents) :
          /\ AttemptEvents[n].attempt = n
          /\ AttemptEvents[n].variant = Labels[n]
          /\ AttemptEvents[n].event = (IF Accepted(n) THEN "schedule.create.ok"
                                       ELSE "schedule.create.fail")
    /\ s_ret = "true" => (s_posts # <<>> /\ Accepted(Len(s_posts)))
\* variants 1..3 rejected, variant 4 accepted, success returned
C7_Witness ==
    /\ s_ret = "true"
    /\ Len(s_posts) = 4
    /\ \A n \in 1..3 : ~Accepted(n)
    /\ Accepted(4)

\* C8: when the target rejects all four variants, the submission returns
\* False, and a failure diagnostic (variant label, payload subset, error) has
\* been emitted for each of the four attempts.
C8_ExhaustedReportsEveryAttempt ==
    /\ (Len(s_posts) = 4 /\ \A n \in 1..4 : ~Accepted(n)) =>
          /\ s_pc \in {"try", "exhausted"}
          /\ s_ret # "true"
          /\ s_pc = "exhausted" => s_ret = "false"
          /\ Len(FailEvents) = 4
          /\ \A n \in 1..4 :
                /\ FailEvents[n].variant = Labels[n]
                /\ FailEvents[n].payload = diag(s_variants[n].pl)
                /\ {"name", "unified_job_template", "rrule"} \subseteq DOMAIN FailEvents[n].payload
                /\ FailEvents[n].error = s_posts[n].answer
    /\ s_ret = "false" => (Len(s_posts) = 4 /\ \A n \in 1..4 : ~Accepted(n))
\* all four rejected, for both kinds of failure, and False returned
C8_Witness ==
    /\ s_pc = "exhausted"
    /\ s_ret = "false"
    /\ Len(FailEvents) = 4
    /\ FailEvents[1].error = "validation"
    /\ FailEvents[4].error = "transport"

BareKeys == {"name", "enabled", "unified_job_template", "rrule", "timezone", "limit"}
\* the bare variants of the list, and the bare payloads that were submitted
BareVariants == {n \in DOMAIN s_variants : Labels[n] \in {"bare-id", "bare-url"}}
BarePosts == {n \in DOMAIN s_posts : s_posts[n].label \in {"bare-id", "bare-url"}}
\* C9 (as amended): the payload of the two bare variants contains no field
\* other than name, enabled, unified_job_template, rrule, timezone, limit and
\* inventory; inventory is present exactly when the job template's inventory
\* id is known, and is that id.
C9_BareVariantFields ==
    /\ \A n \in BareVariants :
          /\ s_variants[n].label = Labels[n]
          /\ DOMAIN s_variants[n].pl \subseteq BareKeys \cup {"inventory"}
          /\ "inventory" \in DOMAIN s_variants[n].pl <=> s_in.jt_inventory_id # <<>>
          /\ "inventory" \in DOMAIN s_variants[n].pl
                => s_variants[n].pl.inventory = s_in.jt_inventory_id[1]
    /\ \A n \in BarePosts : DOMAIN s_posts[n].pl \subseteq BareKeys \cup {"inventory"}
\* C9 (as stated): the payload of the two bare variants contains no field
\* other than name, enabled, unified_job_template, rrule, timezone and limit.
C9_BareVariantOnlySixFields ==
    /\ \A n \in BareVariants : DOMAIN s_variants[n].pl \subseteq BareKeys
    /\ \A n \in BarePosts : DOMAIN s_posts[n].pl \subseteq BareKeys
\* a schedule with per-run overrides and a known inventory, whose bare-id
\* variant was submitted without the overrides the full variant carries
C9_Witness ==
    /\ Len(s_posts) >= 3
    /\ s_in.jt_inventory_id # <<>>
    /\ "job_tags" \in DOMAIN s_variants[1].pl
    /\ "job_tags" \notin DOMAIN s_posts[3].pl
    /\ "limit" \in DOMAIN s_posts[3].pl
    /\ "inventory" \in DOMAIN s_posts[3].pl

\* the preconditions of C10, on the schedule handed to the payload builders
HasRRuleLine(r) == \E p \in LineStarts(Strip(r)) : MatchAtCI(Strip(r), p, TXT_RRULE)
HasAnchorText(r) == \E i \in 1..Len(r) : MatchAtCI(r, i, TXT_DTSTART)
NextRunOf(s) == Or(GetText(s, "next_run"), GetText(s, "next_run_original"))
IsZuluAnchor(l) ==
    /\ Len(l) = 24
    /\ SubSeq(l, 1, 8) = <<"D","T","S","T","A","R","T",":">>
    /\ IsDigitStr(SubSeq(l, 9, 16))
    /\ l[17] = "T"
    /\ IsDigitStr(SubSeq(l, 18, 23))
    /\ l[24] = "Z"
ZULU_OF_N_UTC == <<"D","T","S","T","A","R","T",":","2","0","2","5","1","0","1","6",
                   "T","1","4","0","0","0","0","Z">>
ZULU_OF_N_EST == <<"D","T","S","T","A","R","T",":","2","0","2","6","0","1","0","1",
                   "T","0","4","3","0","0","0","Z">>
\* C10: for a rule with an RRULE: line and no start anchor, a parseable
\* next-run timestamp and no timezone, normalize_rrule returns a rule whose
\* first line is a DTSTART anchor in UTC-zulu form (DTSTART:YYYYMMDDTHHMMSSZ),
\* the instant of the next run converted to UTC, and whose remaining text is
\* the rule itself, unchanged.
C10_AnchorSynthesizedInZuluForm ==
    \A n \in DOMAIN s_variants :
        (/\ "rrule" \in DOMAIN s_in.s
         /\ HasRRuleLine(s_in.s.rrule)
         /\ ~HasAnchorText(s_in.s.rrule)
         /\ ~_parse_iso(NextRunOf(s_in.s)).none
         /\ ~Truthy(GetText(s_in.s, "timezone")))
        => /\ IsZuluAnchor(Partition(s_variants[n].pl.rrule, "\n")[1])
           /\ Partition(s_variants[n].pl.rrule, "\n")[3] = Strip(s_in.s.rrule)
           /\ NextRunOf(s_in.s) = N_UTC
                 => Partition(s_variants[n].pl.rrule, "\n")[1] = ZULU_OF_N_UTC
           /\ NextRunOf(s_in.s) = N_EST
                 => Partition(s_variants[n].pl.rrule, "\n")[1] = ZULU_OF_N_EST
\* the rule RRULE:FREQ=DAILY with next run 2025-10-16T14:00:00Z and no timezone
C10_Witness ==
    /\ s_variants # <<>>
    /\ s_in.s.rrule = R_DAILY
    /\ GetText(s_in.s, "next_run") = N_UTC
    /\ "timezone" \notin DOMAIN s_in.s
    /\ s_variants[1].pl.rrule = ZULU_OF_N_UTC \o <<"\n">> \o R_DAILY
    /\ "timezone" \notin DOMAIN s_variants[1].pl

IsSentinel(v) == IsStr(v) /\ Strip(v) \in REDACTIONS
Genuine(v) == v # NoneText /\ v # <<>> /\ ~IsSentinel(v)

\* C12: every key whose exported value is genuine (not None, not empty, not a
\* redaction sentinel) has the same value in the result, whatever the local
\* secrets hold for that key.
C12_GenuineValuesSurvive ==
    m_pc = "done" =>
        \A k \in DOMAIN m_src :
            Genuine(m_src[k]) => (k \in DOMAIN m_out /\ m_out[k] = m_src[k])
\* merge({"password": "real"}, {"password": "p@ss", ...}) keeps "real"
C12_Witness ==
    /\ m_pc = "done"
    /\ "password" \in DOMAIN m_src /\ m_src.password = V_REAL
    /\ "password" \in DOMAIN m_secrets /\ m_secrets.password = V_LOCAL
    /\ m_out.password = V_REAL

\* C13: every key whose exported value is empty (None or "") or a redaction
\* sentinel and that the local secrets hold carries the local value; every key
\* only the local secrets hold is added with the local value; the keys of the
\* result are exactly the keys of both maps.
C13_RedactedAndMissingTakeLocal ==
    m_pc = "done" =>
        /\ DOMAIN m_out = DOMAIN m_src \cup DOMAIN m_secrets
        /\ \A k \in DOMAIN m_src \cap DOMAIN m_secrets :
              (m_src[k] = NoneText \/ m_src[k] = <<>> \/ IsSentinel(m_src[k]))
                 => m_out[k] = m_secrets[k]
        /\ \A k \in DOMAIN m_secrets \ DOMAIN m_src : m_out[k] = m_secrets[k]
\* merge({"password": "********", "host": ...}, {"password": "p@ss",
\* "username": ...}): the password is substituted, the username added
C13_Witness ==
    /\ m_pc = "done"
    /\ "password" \in DOMAIN m_src /\ m_src.password = STARS8
    /\ "host" \in DOMAIN m_src /\ "host" \notin DOMAIN m_secrets
    /\ "password" \in DOMAIN m_secrets /\ m_secrets.password = V_LOCAL
    /\ "username" \in DOMAIN m_secrets
    /\ m_out.password = V_LOCAL
    /\ m_out.username = m_secrets.username
    /\ m_out.host = m_src.host

(***************************************************************************)
(* Claims about the runs of the job-template script (specification SpecJob)*)
(***************************************************************************)
\* the reads of the target a handled template caused, by endpoint
GetsOf(e, what) == {n \in 1..Len(e.gets) : e.gets[n].what = what}
\* the calls of a handled template that create an object of the endpoint
CreatesOf(e, what) ==
    {n \in 1..Len(e.calls) : e.calls[n].m = "POST" /\ e.calls[n].what = what}

\* C15 (as stated): when --force-ee-id is not supplied the run aborts with a
\* non-zero exit before any template is processed: no template's project or
\* inventory is looked up in the target, no create call is issued, and the
\* run neither goes through the listing nor returns from it.
C15_MissingOverrideAbortsBeforeAnyEntity ==
    j_cfg.force_ee_id = <<>> =>
        /\ j_idx = 0
        /\ j_pc # "done"
        /\ \A i \in 1..Len(j_log) :
              /\ GetsOf(j_log[i], "projects") = {}
              /\ GetsOf(j_log[i], "inventories") = {}
              /\ j_log[i].calls = <<>>

\* the run before the current one was a dry run, the current one is a real
\* run, both returned, and the target they started from accepts every create
DryThenReal ==
    /\ Len(j_hist) = 1
    /\ j_hist[1].cfg.dry_run
    /\ ~j_cfg.dry_run
    /\ j_pc = "done"
    /\ j_hist[1].tgt0 = j_tgt0
    /\ j_tgt0.reject = {}
    /\ j_tgt0.accepts = AllLabels

\* C18 (as stated): for the same source listing and the same initial target,
\* a target that accepts every create, the dry run counts a template as a
\* failure exactly when the real run counts it as a failure.
C18_DryRunClassifiesAsRealRun ==
    DryThenReal =>
        /\ Len(j_hist[1].log) = Len(j_log)
        /\ \A i \in 1..Len(j_log) :
              (j_hist[1].log[i].outcome = "FAIL") <=> (j_log[i].outcome = "FAIL")

(***************************************************************************)
(* Claims about every kind of run (specification SpecRuns)                 *)
(***************************************************************************)
JobFailures == Cardinality({i \in 1..Len(j_log) : j_log[i].outcome = "FAIL"})
BulkFailures == Cardinality({i \in 1..Len(b_log) : b_log[i].outcome = "ERROR"})
ProdFailures == Cardinality({i \in 1..Len(p_log) : p_log[i].outcome = "ERROR"})

\* C16: a bulk run (job templates, legacy projects, PROD compare) that
\* returns, returns 0 exactly when it recorded no per-entity failure, and 2
\* when it recorded at least one; the failures recorded are the entities
\* whose handling raised.
C16_CleanExitIffNoFailure ==
    /\ (j_pc = "done" /\ j_cfg.mode = "all") =>
          /\ j_cnt.fail = JobFailures
          /\ j_exit = 0 <=> j_cnt.fail = 0
          /\ j_cnt.fail >= 1 => j_exit = 2
    /\ (b_pc = "done" /\ b_cfg.mode = "all") =>
          /\ b_cnt.failures = BulkFailures
          /\ b_exit = 0 <=> b_cnt.failures = 0
          /\ b_cnt.failures >= 1 => b_exit = 2
    /\ p_pc = "done" =>
          /\ p_cnt.failures = ProdFailures
          /\ p_exit = 0 <=> p_cnt.failures = 0
          /\ p_cnt.failures >= 1 => p_exit = 2

\* C16 witness: a bulk run of job templates returned 2 after it migrated one
\* template and failed on another
C16_Witness ==
    /\ j_pc = "done"
    /\ j_cfg.mode = "all"
    /\ j_cnt.migrated = 1
    /\ j_cnt.fail = 1
    /\ j_exit = 2

\* C17: in a dry run no mutating call (POST or PATCH) is issued to the
\* target, in any mode: single project, legacy bulk, PROD compare, and job
\* templates (single or bulk) with surveys, credentials, notifications and
\* schedules; the target is left as it was.
C17_DryRunIssuesNoMutatingCall ==
    /\ j_cfg.dry_run =>
          /\ \A i \in 1..Len(j_log) : j_log[i].calls = <<>>
          /\ j_tgt = j_tgt0
    /\ b_cfg.dry_run => b_posts = <<>>
    /\ p_cfg.dry_run => p_posts = <<>>

\* C17 witness: a dry run with notifications and schedules went through a
\* template the target lacks and a template the target holds, which has a
\* survey, a credential, a notification and a schedule
C17_Witness ==
    /\ j_pc = "done"
    /\ j_cfg.dry_run
    /\ j_cfg.with_notifications
    /\ j_cfg.with_schedules
    /\ Len(j_log) = 2
    /\ j_log[1].name = "app" /\ j_log[1].outcome = "MIGRATED"
    /\ j_log[2].name = "old" /\ j_log[2].outcome = "MIGRATED"
    /\ \E n \in 1..Len(j_log[2].gets) : j_log[2].gets[n].what = "job_templates/schedules"

\* whether the target accepted the create call of a handled template
JtCreated(e, tgt0) ==
    /\ CreatesOf(e, "job_templates") # {}
    /\ [what |-> "job_templates", name |-> e.name] \notin tgt0.reject

\* a real run that follows a real run
SecondRealRun(hist, cfg) ==
    /\ Len(hist) = 1
    /\ ~hist[1].cfg.dry_run
    /\ ~cfg.dry_run

C20_SecondRunCreatesNoCandidateAgain ==
    SecondRealRun(p_hist, p_cfg) =>
        \A i \in 1..Len(p_posts) : \A k \in 1..Len(p_hist[1].posts) :
            p_hist[1].posts[k].payload.name = p_posts[i].payload.name
               => p_hist[1].posts[k].answer # "created"

(***************************************************************************)
(* Claims about the sub-resources of a job template (SpecJob)              *)
(***************************************************************************)
\* the schedule create requests of a handled template that the target
\* accepted, and all of them
SchedulePosts(e) ==
    {n \in 1..Len(e.calls) : e.calls[n].m = "POST" /\ e.calls[n].what = "schedules"}
SchedulesCreated(e, tgt0) ==
    {n \in SchedulePosts(e) : e.calls[n].label \in tgt0.accepts}

\* C21 (as stated): when the migration with schedules is run twice (real
\* runs) over the same source, the second run submits no schedule create
\* request for a schedule name the first run created on the same template.
C21_SecondRunCreatesNoScheduleAgain ==
    SecondRealRun(j_hist, j_cfg) =>
        \A i \in 1..Len(j_log) : \A k \in 1..Len(j_hist[1].log) :
            j_hist[1].log[k].name = j_log[i].name =>
                \A n \in SchedulePosts(j_log[i]) :
                \A m \in SchedulesCreated(j_hist[1].log[k], j_hist[1].tgt0) :
                    j_log[i].calls[n].name # j_hist[1].log[k].calls[m].name

\* C22 (as stated): when the lookup finds a job template of the same name in
\* the target organization, the run issues no mutating call for it: no
\* survey POST, no PATCH, no credential or notification attach, no schedule
\* create.
C22_ExistingTemplateIsSkipped ==
    \A i \in 1..Len(j_log) :
        j_log[i].name \in DOMAIN j_tgt0.job_templates => j_log[i].calls = <<>>

(***************************************************************************)
(* Claims about reference resolution (specification SpecRefs)              *)
(***************************************************************************)
\* the answer to the name+organization query of aap_find_credential
NameMatches == CredsNamed(r_tgt, r_in.name)
\* the discriminator singles no credential out: no result carries the type
\* name, and the query narrowed to the type returns nothing
NotSingledOut ==
    /\ Len(NameMatches) > 1
    /\ Truthy(r_in.awx_ctype_name)
    /\ \A i \in 1..Len(NameMatches) : NameMatches[i].type # r_in.awx_ctype_name
    /\ r_in.awx_ctype_name \in DOMAIN r_tgt.credential_types
    /\ \A i \in 1..Len(NameMatches) :
          NameMatches[i].tid # r_tgt.credential_types[r_in.awx_ctype_name]

\* C23 (as stated): aap_find_credential never returns None while the
\* name+organization query returned a credential; when several match and the
\* discriminator singles none out, it returns the first result of that query.
C23_NameMatchAlwaysResolves ==
    (r_pc = "cred" /\ NameMatches # <<>>) =>
        /\ ~r_out.raised
        /\ r_out.found # <<>>
        /\ NotSingledOut => r_out.found = <<NameMatches[1]>>

\* ensure_refs looked the project (the inventory) up and got an answer
ProjectAsked == r_in.proj_name # "" /\ "projects" \notin r_tgt.down
ProjectNotFound ==
    r_out.raised /\ r_out.error = "not found" /\ r_out.about.kind = "Project"
InventoryAsked ==
    /\ r_in.inv_name # ""
    /\ r_in.proj_name # "" => (ProjectAsked /\ r_in.proj_name \in DOMAIN r_tgt.projects)
InventoryNotFound ==
    r_out.raised /\ r_out.error = "not found" /\ r_out.about.kind = "Inventory"

\* C24: ensure_refs resolves a project or inventory name to the id of the
\* entity of that name in the target organization, and fails with a
\* not-found error naming the kind, the name and the organization exactly
\* when no entity of that name is there; a resolution that failed leaves no
\* id for the reference.
C24_ReferenceResolvesOrNotFound ==
    r_pc = "refs" =>
        /\ ProjectAsked =>
              /\ ProjectNotFound <=> r_in.proj_name \notin DOMAIN r_tgt.projects
              /\ ~ProjectNotFound => r_out.proj_id = <<r_tgt.projects[r_in.proj_name]>>
        /\ ~ProjectAsked => ~ProjectNotFound
        /\ ProjectNotFound =>
              /\ r_out.about = [kind |-> "Project", name |-> r_in.proj_name, org |-> ORG_ID]
              /\ r_out.proj_id = <<>>
              /\ r_out.inv_id = <<>>
        /\ InventoryAsked =>
              /\ InventoryNotFound <=> r_in.inv_name \notin DOMAIN r_tgt.inventories
              /\ ~InventoryNotFound => r_out.inv_id = <<r_tgt.inventories[r_in.inv_name]>>
        /\ ~InventoryAsked => ~InventoryNotFound
        /\ InventoryNotFound =>
              /\ r_out.about = [kind |-> "Inventory", name |-> r_in.inv_name, org |-> ORG_ID]
              /\ r_out.inv_id = <<>>
        /\ (r_out.raised /\ ~ProjectAsked) => r_out.proj_id = <<>>

\* C24 witness: the project resolved to its id and the inventory was not found
C24_Witness ==
    /\ r_pc = "refs"
    /\ r_in.proj_name = "P"
    /\ r_in.inv_name = "J"
    /\ r_out.proj_id = <<11>>
    /\ InventoryNotFound
    /\ r_out.about.name = "J"
    /\ r_out.inv_id = <<>>

(***************************************************************************)
(* Claims about the limit and the receipt of PROD compare (SpecProd)       *)
(***************************************************************************)
\* the candidates handled so far that passed the name filter
NonFiltered == {i \in 1..Len(p_log) : p_log[i].outcome # "FILTERED"}

\* C25: in PROD compare mode with limit N > 0 the loop halts once N
\* candidates that passed the filter have been processed: filtered
\* candidates do not count, no candidate after the N-th is handled in any
\* way, the outcomes recorded before the halt are all in the receipt, and
\* the run goes on to write the receipt and its summary and returns.
C25_LimitHaltsAndReceiptIsWritten ==
    p_cfg.limit > 0 =>
        /\ Cardinality(NonFiltered) <= p_cfg.limit
        /\ p_cnt.processed = Cardinality(NonFiltered)
        /\ Cardinality(NonFiltered) = p_cfg.limit =>
              /\ p_log[Len(p_log)].outcome # "FILTERED"
              /\ p_pc \in {"break", "done", "crashed"}
        /\ p_pc \in {"break", "done"} =>
              /\ Len(p_receipt) = Cardinality(NonFiltered)
              /\ p_cnt.matches + p_cnt.migrated + p_cnt.failures = Len(p_receipt)
        /\ p_pc = "break" =>
              /\ Cardinality(NonFiltered) = p_cfg.limit
              /\ ENABLED PFinish
        /\ p_pc = "done" => p_exit \in {0, 2}

\* C25 witness: a run with limit 1 over two candidates returned after the
\* first, with its record in the receipt
C25_Witness ==
    /\ p_cfg.limit = 1
    /\ p_pc = "done"
    /\ Len(p_prod) = 2
    /\ p_idx = 1
    /\ Len(p_log) = 1
    /\ Len(p_receipt) = 1

\* the position in the candidate listing of the n-th candidate that passed
\* the filter
NthNonFiltered(n) ==
    CHOOSE i \in NonFiltered : Cardinality({j \in NonFiltered : j <= i}) = n

\* the receipt holds one record per classified candidate, in listing order,
\* with its classification and the printable form of its key
ReceiptMatchesListing ==
    /\ Len(p_receipt) = p_cnt.matches + p_cnt.migrated + p_cnt.failures
    /\ p_pc # "crashed" => Len(p_receipt) = Cardinality(NonFiltered)
    /\ \A n \in 1..Len(p_receipt) :
          \E i \in {NthNonFiltered(n)} :
             /\ p_receipt[n].kind \in {"MATCH", "CREATED", "DRYRUN-CREATE", "ERROR"}
             /\ p_receipt[n].kind = p_log[i].outcome
             /\ p_receipt[n].prod_name = p_prod[i].name
             /\ p_receipt[n].key = printable_key(KeyOf(project_key(p_prod[i])))

\* a step leaves the records of the receipt as they are and adds at most one
\* (a new run of the script starts a new receipt)
ReceiptAppendOnly ==
    \/ p_pc' = "start"
    \/ /\ Len(p_receipt') \in {Len(p_receipt), Len(p_receipt) + 1}
       /\ \A n \in 1..Len(p_receipt) : p_receipt'[n] = p_receipt[n]

\* C26: in PROD compare mode the receipt holds exactly one record per
\* processed candidate, in candidate listing order, each with the natural
\* key used for matching and the classification MATCH, CREATED,
\* DRYRUN-CREATE or ERROR; records are only appended, never rewritten, and
\* their number always equals matches + migrated + failures.
C26_ReceiptOneRecordPerProcessed ==
    []ReceiptMatchesListing /\ [][ReceiptAppendOnly]_vars

\* C26 witness: a receipt of two records, a match and then a creation
C26_Witness ==
    /\ Len(p_receipt) = 2
    /\ p_receipt[1].kind = "MATCH"
    /\ p_receipt[2].kind = "CREATED"
    /\ p_pc = "done"

(***************************************************************************)
(* Claims about the calls of a run (specification SpecRuns)                *)
(***************************************************************************)
\* the calls of a handled template other than the schedule submissions
PlainCalls(e) == {n \in 1..Len(e.calls) : e.calls[n].what # "schedules"}

\* no call of a template is issued twice, a refused call ends the handling
\* of the template, and a schedule gets at most four POSTs, one per variant
CallsIssuedOnce(e, tgt0) ==
    /\ \A n1, n2 \in PlainCalls(e) :
          (/\ e.calls[n1].m = e.calls[n2].m
           /\ e.calls[n1].what = e.calls[n2].what
           /\ e.calls[n1].name = e.calls[n2].name
           /\ e.calls[n1].id = e.calls[n2].id) => n1 = n2
    /\ \A n \in PlainCalls(e) :
          Rejected(tgt0, e.calls[n].what, e.calls[n].name, e.calls[n].label) =>
             /\ n = Len(e.calls)
             /\ e.outcome = "FAIL"
    /\ \A n \in SchedulePosts(e) :
          /\ Cardinality({k \in SchedulePosts(e) : e.calls[k].name = e.calls[n].name}) <= 4
          /\ \A k \in SchedulePosts(e) :
                (e.calls[k].name = e.calls[n].name /\ e.calls[k].label = e.calls[n].label)
                   => k = n

\* the steps a run has left at most: the entities of the listing it has not
\* consumed, and the steps around the loop
StepsLeft(pc, listing, idx) ==
    CASE pc = "start" -> Len(listing) + 3
      [] pc = "loop" -> Len(listing) - idx + 2
      [] pc = "break" -> 1
      [] OTHER -> 0
\* the same, counting the runs that may follow (each shorter than 10 steps)
Remaining ==
    (MaxRuns - Len(p_hist) - 1) * 10 + StepsLeft(p_pc, p_prod, p_idx)
  + (MaxRuns - Len(j_hist) - 1) * 10 + StepsLeft(j_pc, j_src, j_idx)
  + (MaxRuns - Len(b_hist) - 1) * 10 + StepsLeft(b_pc, b_src, b_idx)

\* C27: within a run no call to the target is issued again after it failed,
\* but for the submission of a schedule: each create of a project, a job
\* template or a notification template and each attach call is issued at
\* most once per entity, a schedule gets at most four create POSTs, and
\* every run over a finite listing terminates (each step of a run leaves
\* fewer steps to take, and their number is never negative).
C27_NoRetryButSchedulesAndTermination ==
    /\ [](/\ \A i \in 1..Len(j_log) : CallsIssuedOnce(j_log[i], j_tgt0)
          /\ Len(b_posts) = Cardinality({i \in 1..Len(b_log) : b_log[i].posted})
          /\ Len(p_posts) =
                Cardinality({i \in 1..Len(p_log) : p_log[i].outcome \in {"CREATED", "ERROR"}})
          /\ Remaining >= 0)
    /\ [][Remaining' < Remaining]_vars

\* C27 witness: a run returned after a schedule of a template was refused
\* in each of its four variants
C27_Witness ==
    /\ j_pc = "done"
    /\ \E i \in 1..Len(j_log) :
          /\ Cardinality(SchedulePosts(j_log[i])) = 4
          /\ j_log[i].outcome = "MIGRATED"

(***************************************************************************)
(* Claims about the references of a schedule payload (SpecSched)           *)
(***************************************************************************)
\* C28 (as stated): no payload sent to the target carries an identifier of
\* the source system as a reference: the inventory of a submitted schedule
\* is the inventory resolved for its job template in the target, and the
\* payload holds no execution environment copied from the source schedule.
C28_NoSourceIdInSubmittedPayload ==
    \A n \in 1..Len(s_posts) :
        /\ "inventory" \in DOMAIN s_posts[n].pl =>
              s_posts[n].pl.inventory = s_in.jt_inventory_id[1]
        /\ "execution_environment" \in DOMAIN s_in.s =>
              "execution_environment" \notin DOMAIN s_posts[n].pl

(***************************************************************************)
(* Claims about the order of the steps of a run (SpecJob, SpecRuns)        *)
(***************************************************************************)
\* C29 (as stated): every reference of a job template that is resolved by
\* name (its project, its inventory and each of its credentials) is
\* resolved before the create call is issued, so that a job template with
\* a credential the target lacks is never created.
C29_ReferencesResolvedBeforeCreate ==
    \A i \in 1..Len(j_log) :
        (j_log[i].outcome = "FAIL" /\ j_log[i].error \in {"not found", "credential not found"})
            => CreatesOf(j_log[i], "job_templates") = {}

\* the positions of a legacy run, and of a job-template run, where a create
\* call was issued for the name
ProjectCreateCalls(name) == {i \in 1..Len(b_log) : b_log[i].name = name /\ b_log[i].posted}
TemplateCreateCalls(name) ==
    {i \in 1..Len(j_log) : j_log[i].name = name /\ CreatesOf(j_log[i], "job_templates") # {}}

BNonFiltered == {i \in 1..Len(b_log) : b_log[i].outcome # "FILTERED"}

\* C32 (as stated): in the legacy bulk run with --limit N > 0 the projects
\* skipped by the filters do not count toward the limit: the run breaks out
\* of its loop only when N projects that passed the filters were handled.
C32_FilteredDoNotCountTowardLimit ==
    b_pc = "break" => Cardinality(BNonFiltered) = b_cfg.limit

(***************************************************************************)
(* Claims about schedules that no variant gets accepted (SpecJob)          *)
(***************************************************************************)
\* the schedule POSTs of a handled template that were the fourth variant
\* and were refused: the schedule was given up
SchedulesExhausted(e, tgt0) ==
    {n \in SchedulePosts(e) : e.calls[n].label = "bare-url" /\ "bare-url" \notin tgt0.accepts}

\* C33 (as stated): a schedule that exhausts the four variants is recorded
\* as a failed outcome: a bulk run in which a schedule was exhausted does
\* not return the clean exit code 0.
C33_ExhaustedScheduleFailsTheRun ==
    (j_pc = "done" /\ j_cfg.mode = "all") =>
        \A i \in 1..Len(j_log) :
            SchedulesExhausted(j_log[i], j_tgt0) # {} =>
                /\ j_log[i].outcome = "FAIL"
                /\ j_exit # 0

(***************************************************************************)
(* Claims about the errors of a schedule POST (SpecSched)                  *)
(***************************************************************************)
\* C34 (as stated): only a validation rejection by the target advances the
\* sequence of variants: after a transport error (a network failure or an
\* error status that is no validation rejection) of a schedule POST no
\* further variant is submitted.
C34_TransportErrorEndsTheSequence ==
    \A n \in 1..Len(s_posts) :
        s_posts[n].answer = "transport" => n = Len(s_posts)

(***************************************************************************)
(* Claims about a rule that has its anchor (SpecSched)                     *)
(***************************************************************************)
\* text p occurs in text t
Contains(t, p) == \E i \in 1..(Len(t) - Len(p) + 1) : SubSeq(t, i, i + Len(p) - 1) = p
\* the positions of text r where a DTSTART keyword starts
AnchorStarts(r) == {i \in 1..Len(r) : MatchAtCI(r, i, TXT_DTSTART)}
\* the first whitespace of r, and the first character after that whitespace
FirstSpace(r) == SetMin({i \in 1..Len(r) : IsSpace(r[i])} \cup {Len(r) + 1})
AfterSpace(r) == SetMin({i \in FirstSpace(r)..Len(r) : ~IsSpace(r[i])} \cup {Len(r) + 1})
\* r is an anchor line followed, after whitespace, by the RRULE line
AnchorThenRule(r) ==
    /\ RRULE_DT_RE(r)
    /\ MatchAtCI(r, 1, TXT_DTSTART)
    /\ MatchAtCI(r, AfterSpace(r), TXT_RRULE)
AnchorText(r) == Upto(r, FirstSpace(r) - 1)
RuleText(r) == From(r, AfterSpace(r))

\* C36 (as stated): when the raw rule holds a DTSTART anchor line followed,
\* after whitespace or a newline, by an RRULE line, the rule of the payload
\* still holds that anchor text and that RRULE text, the anchor first, and
\* no second, synthesized anchor.
C36_AnchoredRuleKeepsItsAnchor ==
    (s_variants # <<>> /\ "rrule" \in DOMAIN s_in.s /\ AnchorThenRule(Strip(s_in.s.rrule))) =>
        /\ StartsWith(s_variants[1].pl.rrule, AnchorText(Strip(s_in.s.rrule)))
        /\ Contains(s_variants[1].pl.rrule, RuleText(Strip(s_in.s.rrule)))
        /\ Cardinality(AnchorStarts(s_variants[1].pl.rrule)) = 1

(***************************************************************************)
(* Claims about the list of variants (SpecSched)                           *)
(***************************************************************************)
\* the variant by URL at position u is the variant by id at position i but
\* for the owner reference
SameButOwner(i, u) ==
    /\ DOMAIN s_variants[u].pl = DOMAIN s_variants[i].pl
    /\ \A k \in DOMAIN s_variants[i].pl \ {"unified_job_template"} :
          s_variants[u].pl[k] = s_variants[i].pl[k]
    /\ s_variants[i].pl.unified_job_template = s_in.jt_id
    /\ s_variants[u].pl.unified_job_template =
          AAP_HOST \o JT_PATH \o IntToStr(s_in.jt_id) \o <<"/">>

VariantsAreFixed ==
    /\ s_variants = <<>> => s_posts = <<>>
    /\ s_variants # <<>> =>
          /\ Len(s_variants) = 4
          /\ SameButOwner(1, 2)
          /\ SameButOwner(3, 4)
          /\ \A n \in 1..Len(s_posts) :
                /\ s_posts[n].label = s_variants[n].label
                /\ s_posts[n].pl = s_variants[n].pl

\* C37: the four variants of a schedule are fixed before the first attempt
\* and stay as built; each variant by URL equals its counterpart by id in
\* every field but the owner reference, the counterpart keeps the id, and
\* what is submitted at attempt n is the n-th variant as built.
C37_VariantsFixedAndEqualButOwner ==
    /\ []VariantsAreFixed
    /\ [][s_variants # <<>> => s_variants' = s_variants]_vars

\* C37 witness: all four variants of a schedule with every override were
\* submitted
C37_Witness ==
    /\ s_pc = "exhausted"
    /\ Len(s_posts) = 4
    /\ {"extra_data", "inventory", "timezone"} \subseteq DOMAIN s_variants[1].pl
    /\ "inventory" \in DOMAIN s_variants[3].pl

(***************************************************************************)
(* Claims about merging twice (specification SpecMerge)                    *)
(***************************************************************************)
MergeIdempotent ==
    m_pc = "again" =>
        /\ DOMAIN m_twice = DOMAIN m_out
        /\ \A k \in DOMAIN m_out : m_twice[k] = m_out[k]

\* C38: merging the result of a merge with the same local secrets again
\* gives that result, and a merge modifies neither the exported
\* configuration nor the local secrets it was given.
C38_MergeIdempotentAndInputsUntouched ==
    /\ []MergeIdempotent
    /\ [][m_src' = m_src /\ m_secrets' = m_secrets]_vars

\* C38 witness: a merge that substituted a redacted password and added the
\* user name was merged again
C38_Witness ==
    /\ m_pc = "again"
    /\ "password" \in DOMAIN m_src /\ m_src.password = STARS8
    /\ "password" \in DOMAIN m_secrets /\ m_secrets.password = V_LOCAL
    /\ "username" \in DOMAIN m_secrets \ DOMAIN m_src
    /\ "host" \in DOMAIN m_src /\ "host" \in DOMAIN m_secrets
    /\ m_src.host = <<>> /\ m_secrets.host = STARS8
    /\ m_twice.password = V_LOCAL
    /\ m_twice.host = STARS8

(***************************************************************************)
(* Claims about the credentials of a template (specification SpecRefs)     *)
(***************************************************************************)
\* the ids of the attach calls of a context, in the order issued
AttachedIds(c) ==
    Bind(SelectSeq(c.calls, LAMBDA x : x.m = "POST" /\ x.what = "job_templates/credentials"),
         LAMBDA a : [i \in 1..Len(a) |-> a[i].id[1]])
\* one credential of the source resolved on its own
ResolvedAlone(cr) == resolve_cred(Ctx(r_tgt), ORG_ID, cr, r_job.force_machine_cred_id)
AllResolve == \A i \in 1..Len(r_job.creds) : ~ResolvedAlone(r_job.creds[i]).raised
\* the ids the credentials resolve to, one after the other
RECURSIVE ResolvedIds(_)
ResolvedIds(creds) ==
    IF creds = <<>> THEN <<>>
    ELSE ResolvedAlone(Head(creds)).ids \o ResolvedIds(Tail(creds))
\* a sequence without the repetitions of its elements
RECURSIVE FirstOccurrences(_)
FirstOccurrences(ids) ==
    IF ids = <<>> THEN <<>>
    ELSE Bind(FirstOccurrences(Upto(ids, Len(ids) - 1)), LAMBDA d :
            IF ids[Len(ids)] \in Range(d) THEN d ELSE Append(d, ids[Len(ids)]))

\* C39: the credentials of a template are all resolved before the first
\* attach call: when one of them cannot be resolved the step fails and
\* nothing is attached; otherwise every distinct resolved id is attached
\* once, in the order of first occurrence, also when several credentials
\* resolve to one id.
C39_CredentialsResolvedThenAttachedOnce ==
    r_pc = "creds" =>
        /\ r_job.dry_run => (r_out.calls = <<>> /\ ~r_out.raised)
        /\ (~r_job.dry_run /\ ~AllResolve) =>
              (r_out.raised /\ AttachedIds(r_out) = <<>>)
        /\ (~r_job.dry_run /\ AllResolve) =>
              /\ ~r_out.raised
              /\ AttachedIds(r_out) = FirstOccurrences(ResolvedIds(r_job.creds))
              /\ Len(r_out.calls) = Len(AttachedIds(r_out))

\* C39 witness: two Machine credentials took the forced id, which was
\* attached once, before the id of the third credential
C39_Witness ==
    /\ r_pc = "creds"
    /\ Len(r_job.creds) = 3
    /\ r_job.force_machine_cred_id = <<31>>
    /\ ResolvedIds(r_job.creds) = <<31, 44, 31>>
    /\ AttachedIds(r_out) = <<31, 44>>

\* a credential that cannot be resolved followed one that was: nothing is
\* attached
C39_WitnessUnresolved ==
    /\ r_pc = "creds"
    /\ ~r_job.dry_run
    /\ Len(r_job.creds) = 2
    /\ ~ResolvedAlone(r_job.creds[1]).raised
    /\ ResolvedAlone(r_job.creds[2]).raised
    /\ r_out.raised
    /\ r_out.calls = <<>>

(***************************************************************************)
(* Claims about the notifications of a template (specification SpecJob)    *)
(***************************************************************************)
NotifKinds == {"started", "success", "error"}
\* the notifications of a kind that attach_notifs_email takes for e-mail
EmailsOf(obj, kind) ==
    {n \in 1..Len(obj.notifs[kind]) :
        /\ Lower(Or(obj.notifs[kind][n].notification_type, <<>>)) = TXT_EMAIL
        /\ obj.notifs[kind][n].name # ""}
EmailNames(obj) ==
    UNION { {obj.notifs[kind][n].name : n \in EmailsOf(obj, kind)} : kind \in NotifKinds }
\* the attach calls of a handled template for a kind
NotifAttaches(e, kind) ==
    {n \in 1..Len(e.calls) :
        e.calls[n].m = "POST" /\ e.calls[n].what = "job_templates/notification_templates_" \o kind}
\* the create calls of the run for a notification template of that name
NotifCreates(name) ==
    {x \in UNION { {<<i, n>> : n \in CreatesOf(j_log[i], "notification_templates")} :
                      i \in 1..Len(j_log) } :
        j_log[x[1]].calls[x[2]].name = name}

\* C40: in a non-dry run with notifications, a notification template of
\* type e-mail is created at most once by name, also when a template names
\* it under several kinds, and a migrated template gets one attach call per
\* kind and e-mail notification of that kind, with the id the target holds
\* for that name; a notification of another type is never looked up,
\* created or attached.
C40_EmailNotificationCreatedOnceAttachedPerKind ==
    (j_cfg.with_notifications /\ ~j_cfg.dry_run) =>
        /\ \A i \in 1..Len(j_log) :
              /\ \A n \in CreatesOf(j_log[i], "notification_templates") :
                    /\ j_log[i].calls[n].name \in EmailNames(j_src[i])
                    /\ Cardinality(NotifCreates(j_log[i].calls[n].name)) = 1
              /\ \A n \in GetsOf(j_log[i], "notification_templates") :
                    j_log[i].gets[n].name \in EmailNames(j_src[i])
              /\ j_log[i].outcome = "MIGRATED" =>
                    \A kind \in NotifKinds :
                        /\ Cardinality(NotifAttaches(j_log[i], kind))
                              = Cardinality(EmailsOf(j_src[i], kind))
                        /\ \A n \in NotifAttaches(j_log[i], kind) :
                              \E k \in EmailsOf(j_src[i], kind) :
                                 j_log[i].calls[n].id =
                                    <<j_tgt.notification_templates[j_src[i].notifs[kind][k].name]>>

\* C40 witness: a template that names one e-mail notification under two
\* kinds, and a notification of another type, was migrated: one create, two
\* attach calls
C40_Witness ==
    /\ j_cfg.with_notifications /\ ~j_cfg.dry_run
    /\ Len(j_log) >= 1
    /\ j_log[1].outcome = "MIGRATED"
    /\ EmailsOf(j_src[1], "started") # {} /\ EmailsOf(j_src[1], "error") # {}
    /\ Len(j_src[1].notifs.error) > Cardinality(EmailsOf(j_src[1], "error"))
    /\ Cardinality(CreatesOf(j_log[1], "notification_templates")) = 1
    /\ Cardinality(NotifAttaches(j_log[1], "started")) = 1
    /\ Cardinality(NotifAttaches(j_log[1], "error")) = 1

(***************************************************************************)
(* Claims about the offline index (specification SpecIndex)                *)
(***************************************************************************)
\* C35 (as stated): the index exported to a file and loaded from it has the
\* key set of the index built live from the same listing and maps every
\* key to the entity of the same name and id, also when several entities
\* share a key and when a normalized URL contains "@@".
C35_OfflineIndexEqualsLiveIndex ==
    x_pc = "loaded" =>
        /\ DOMAIN x_offline = DOMAIN x_live.map
        /\ \A k \in DOMAIN x_live.map \cap DOMAIN x_offline :
              /\ x_offline[k].name = x_live.map[k].name
              /\ x_offline[k].id = x_live.map[k].id

(***************************************************************************)
(* Claims about two runs at once (specification SpecConc)                  *)
(***************************************************************************)
\* C31 (as stated): in every interleaving of two runs over the same source
\* against the same target each entity is created at most once: the two
\* runs never both find a name absent and both issue a create call for it.
C31_NoEntityCreatedByBothRuns ==
    \A m, n \in 1..Len(c_posts) :
        c_posts[m].name = c_posts[n].name => c_posts[m].run = c_posts[n].run

====
